---- MODULE Spec2Model ----
(***************************************************************************)
(* Tool-orchestration and execution-trace core of the MCP agent demo:      *)
(* the trace recorder (utils/trace.py), the text-completion gateway        *)
(* (utils/llm.py) and the two orchestrators (utils/agent_trip.py,          *)
(* utils/agent_market.py) with the tool adapters they call.                *)
(***************************************************************************)
EXTENDS Integers, Sequences, FiniteSets, TLC

VARIABLES
    calls,      \* MCPTrace.calls: the list of ToolCall records
    now,        \* the reading of time.time(), in units of 0.1 ms
    ret,        \* the last recorder operation: its arguments, its outcome and
                \* the status the call it finalized had before
    started,    \* history: the arguments, the returned handle and the clock
                \* reading of every start_call, in order
    environ,    \* os.environ's credentials, and whether google.genai imported
    llm,        \* the last ask_gemini call: what the backends did, what it returned
    req,        \* the arguments of the orchestrator run
    pc,         \* where the run stands in the orchestrator's code
    idx,        \* the local idx / culture_idx / itin_idx / summary_idx
    results,    \* the local results dictionary, returned at the end
    net,        \* the network requests made by the step under way, in order,
                \* and whether each was answered
    hashseed,   \* the key of str hashing, drawn when the interpreter starts
    rng,        \* the state of the random module's shared generator
    log,        \* history: the sample-generator calls completed, in order
    runs        \* the overlapping runs: each one's position, locals and trace

traceVars == <<calls, now, ret, started>>

llmVars == <<environ, llm>>

runVars == <<req, pc, idx, results, net>>

genVars == <<hashseed, rng, log, runs>>

vars ==
    <<calls, now, ret, started, environ, llm, req, pc, idx, results, net,
      hashseed, rng, log, runs>>

(***************************************************************************)
(* Bounds of the model.                                                    *)
(***************************************************************************)
MaxCalls == 2
MaxTime == 1

\* The time the work of one orchestrator step takes, in clock units.
StepTicks == 1

(***************************************************************************)
(* Python values.  None and str are kept apart so that truthiness          *)
(* ("if error", "if result") is computed as Python computes it.            *)
(***************************************************************************)
None == [t |-> "None"]

Str(s) == [t |-> "str", s |-> s]

Truthy(v) == v.t # "None" /\ (v.t = "str" => v.s # "")

Range(f) == {f[i] : i \in DOMAIN f}

(***************************************************************************)
(* utils/trace.py                                                          *)
(***************************************************************************)
\* A timestamp default evaluated once, when the class is defined.
ToolCall_static_timestamp(tool_name, inputs, t) ==
    [tool_name |-> tool_name, inputs |-> inputs, output |-> None,
     status |-> "pending", timestamp |-> 0, duration_ms |-> 0, error |-> None]

\* ToolCall(tool_name=..., inputs=...): the dataclass defaults, timestamp
\* taken from time.time() at construction.
ToolCall(tool_name, inputs, t) ==
    [tool_name |-> tool_name, inputs |-> inputs, output |-> None,
     status |-> "pending", timestamp |-> t, duration_ms |-> 0, error |-> None]

\* round((time.time() - call.timestamp) * 1000, 1): the clock is read in
\* tenths of a millisecond, the unit of the rounded result.
Round1(tenths) == tenths

\* Variants of start_call: inserting at the front, returning the new length.
start_call_front(cs, tool_name, inputs, t) ==
    [calls |-> <<ToolCall(tool_name, inputs, t)>> \o cs, handle |-> Len(cs)]

start_call_offbyone(cs, tool_name, inputs, t) ==
    [calls |-> Append(cs, ToolCall(tool_name, inputs, t)), handle |-> Len(cs) + 1]

\* MCPTrace.start_call: the new list and the returned index.
start_call(cs, tool_name, inputs, t) ==
    [calls |-> Append(cs, ToolCall(tool_name, inputs, t)), handle |-> Len(cs)]

\* self.calls[index]: Python list indexing.  The position (1-based) of the
\* element read, 0 when the index raises IndexError.
PyIndex(n, index) ==
    IF index >= 0 /\ index < n THEN index + 1
    ELSE IF index < 0 /\ index >= -n THEN n + index + 1
    ELSE 0

\* Variants of the assignments of end_call: "error is not None" in place of
\* the truthiness test, and the output stored over the inputs.
Finalize_is_not_none(call, output, error, t) ==
    [call EXCEPT !.output = output,
                 !.duration_ms = Round1(t - call.timestamp),
                 !.status = IF error # None THEN "error" ELSE "success",
                 !.error = error]

Finalize_over_inputs(call, output, error, t) ==
    [call EXCEPT !.inputs = [result |-> output],
                 !.output = output,
                 !.duration_ms = Round1(t - call.timestamp),
                 !.status = IF Truthy(error) THEN "error" ELSE "success",
                 !.error = error]

\* A variant of end_call that leaves a call already finalized as it is.
Finalize_once(call, output, error, t) ==
    IF call.status # "pending" THEN call
    ELSE [call EXCEPT !.output = output,
                      !.duration_ms = Round1(t - call.timestamp),
                      !.status = IF Truthy(error) THEN "error" ELSE "success",
                      !.error = error]

\* The four assignments of end_call to the call it reads.
Finalize(call, output, error, t) ==
    [call EXCEPT !.output = output,
                 !.duration_ms = Round1(t - call.timestamp),
                 !.status = IF Truthy(error) THEN "error" ELSE "success",
                 !.error = error]

\* MCPTrace.end_call: the new list, and whether the call raised IndexError.
end_call(cs, index, output, error, t) ==
    LET p == PyIndex(Len(cs), index) IN
    IF p = 0 THEN [calls |-> cs, raised |-> TRUE]
    ELSE [calls |-> [cs EXCEPT ![p] = Finalize(cs[p], output, error, t)],
          raised |-> FALSE]

\* MCPTrace.get_calls
get_calls(cs) == cs

(***************************************************************************)
(* utils/llm.py                                                            *)
(***************************************************************************)
LLM_UNAVAILABLE == Str("__LLM_UNAVAILABLE__")

\* What one request to a backend does: it raises, or the response carries a
\* content (message.content, response.text), which may be None or empty.
Raises == [raises |-> TRUE, content |-> None]

Returns(content) == [raises |-> FALSE, content |-> content]

\* _ask_groq: the text or None, and whether the backend was requested.
_ask_groq(env, outcome) ==
    IF ~env.GROQ_API_KEY THEN [result |-> None, attempts |-> <<>>]
    ELSE IF outcome.raises THEN [result |-> None, attempts |-> <<"groq">>]
    ELSE [result |-> outcome.content, attempts |-> <<"groq">>]

\* _ask_gemini: the text or None, and whether the backend was requested.
_ask_gemini(env, outcome) ==
    IF ~env.HAS_GOOGLE THEN [result |-> None, attempts |-> <<>>]
    ELSE IF ~env.GOOGLE_API_KEY THEN [result |-> None, attempts |-> <<>>]
    ELSE IF outcome.raises THEN [result |-> None, attempts |-> <<"gemini">>]
    ELSE [result |-> outcome.content, attempts |-> <<"gemini">>]

\* Variants of ask_gemini: Gemini requested whatever Groq returned, and a
\* failed Groq request repeated.
ask_gemini_both(env, groq, gemini) ==
    LET g == _ask_groq(env, groq)
        m == _ask_gemini(env, gemini) IN
    IF Truthy(g.result)
    THEN [result |-> g.result, attempts |-> g.attempts \o m.attempts, raised |-> FALSE]
    ELSE IF Truthy(m.result)
    THEN [result |-> m.result, attempts |-> g.attempts \o m.attempts, raised |-> FALSE]
    ELSE [result |-> LLM_UNAVAILABLE, attempts |-> g.attempts \o m.attempts,
          raised |-> FALSE]

\* ask_gemini: Groq first, then Gemini, then the sentinel.
ask_gemini(env, groq, gemini) ==
    LET g == _ask_groq(env, groq) IN
    IF Truthy(g.result)
    THEN [result |-> g.result, attempts |-> g.attempts, raised |-> FALSE]
    ELSE LET m == _ask_gemini(env, gemini) IN
         IF Truthy(m.result)
         THEN [result |-> m.result, attempts |-> g.attempts \o m.attempts,
               raised |-> FALSE]
         ELSE [result |-> LLM_UNAVAILABLE, attempts |-> g.attempts \o m.attempts,
               raised |-> FALSE]

(***************************************************************************)
(* Python values held in results and passed to the recorder.  A dict is a  *)
(* record tagged "dict" whose other fields are its keys; a list is tagged  *)
(* "list".                                                                 *)
(***************************************************************************)
List(items) == [t |-> "list", items |-> items]

\* {"error": str(e)}
ErrorMarker(msg) == [t |-> "dict", error |-> msg]

\* s.lower().strip(), on the names the model draws its inputs from.
LowerStrip(s) ==
    CASE s = "Tokyo" -> "tokyo"
      [] s = " Paris " -> "paris"
      [] s = "Atlantis" -> "atlantis"
      [] s = "Delhi" -> "delhi"
      [] s = "Japan" -> "japan"
      [] s = " India " -> "india"
      [] s = "France" -> "france"

\* s.title(), on the descriptions the weather provider answers with.
Title(s) ==
    CASE s = "clear sky" -> "Clear Sky"
      [] s = "light rain" -> "Light Rain"

\* str(n), on the traveler counts of the model.
IntStr(n) ==
    CASE n = 1 -> "1"
      [] n = 2 -> "2"
      [] n = 3 -> "3"

\* ', '.join(names)
RECURSIVE Join(_)
Join(names) ==
    IF Len(names) = 0 THEN ""
    ELSE IF Len(names) = 1 THEN names[1]
    ELSE names[1] \o ", " \o Join(Tail(names))

\* xs[:n]
Take(xs, n) == SubSeq(xs, 1, IF Len(xs) < n THEN Len(xs) ELSE n)

\* What one HTTP request does: requests.get / raise_for_status / the payload
\* lookups raise (msg is str(e)), or the payload is read.
HttpFails(msg) == [ok |-> FALSE, msg |-> msg]

HttpOk(data) == [ok |-> TRUE, data |-> data]

(***************************************************************************)
(* utils/fallbacks.py: the pre-written paragraphs stand as their keys.     *)
(***************************************************************************)
CULTURAL_INFO == {"tokyo", "udaipur", "new york", "london", "paris"}

ITINERARIES == {"tokyo", "udaipur"}

MARKET_SUMMARIES ==
    {"japan", "india", "united states", "south korea", "china", "united kingdom"}

\* A variant of get_fallback_cultural_info: the library is not consulted.
get_fallback_cultural_info_generic(city) ==
    Str(city \o " is a vibrant destination rich in culture, history, "
             \o "and unique experiences.")

get_fallback_cultural_info(city) ==
    LET key == LowerStrip(city) IN
    IF key \in CULTURAL_INFO THEN Str("CULTURAL_INFO[" \o key \o "]")
    ELSE Str(city \o " is a vibrant destination rich in culture, history, "
                  \o "and unique experiences.")

\* att_text: one "  - name" line for each of the first six attractions.
RECURSIVE AttText(_)
AttText(names) ==
    IF Len(names) = 0 THEN "" ELSE "  - " \o names[1] \o ";" \o AttText(Tail(names))

get_fallback_itinerary(city, from_city, start_date, end_date, travelers, budget, preferences, attractions) ==
    LET key == LowerStrip(city) IN
    IF key \in ITINERARIES THEN Str("ITINERARIES[" \o key \o "]")
    ELSE Str("**Day 1: Arrival & Orientation** Arrive in " \o city \o " from "
             \o from_city \o ". Visit the top-rated attractions: "
             \o AttText(Take(attractions, 6))
             \o " Budget: " \o budget \o " | Travelers: " \o IntStr(travelers)
             \o " | Dates: " \o start_date \o " to " \o end_date
             \o " Preferences: "
             \o (IF preferences # "" THEN preferences ELSE "General sightseeing"))

get_fallback_market_summary(country, currency_name, index_names) ==
    LET key == LowerStrip(country) IN
    IF key \in MARKET_SUMMARIES THEN Str("MARKET_SUMMARIES[" \o key \o "]")
    ELSE Str(country \o "'s financial market features the "
             \o (IF currency_name # "" THEN currency_name ELSE "local currency")
             \o " as its official currency. The country's stock exchanges and "
             \o "major indices ("
             \o (IF Len(index_names) > 0 THEN Join(index_names) ELSE "N/A")
             \o ") play an important role.")

(***************************************************************************)
(* tools/weather.py                                                        *)
(***************************************************************************)
\* wind_kph is held in tenths (12.5 is 125).
SAMPLE_CURRENT ==
    [t |-> "dict", temp_c |-> 22, feels_like_c |-> 21,
     description |-> "Partly cloudy", humidity |-> 55, wind_kph |-> 125,
     icon |-> "02d", sample |-> TRUE]

SAMPLE_FORECAST ==
    <<[t |-> "dict", date |-> "Day 1", temp_min |-> 18, temp_max |-> 25,
       description |-> "Sunny", humidity |-> 50],
      [t |-> "dict", date |-> "Day 2", temp_min |-> 17, temp_max |-> 24,
       description |-> "Partly cloudy", humidity |-> 55],
      [t |-> "dict", date |-> "Day 3", temp_min |-> 19, temp_max |-> 26,
       description |-> "Clear sky", humidity |-> 48],
      [t |-> "dict", date |-> "Day 4", temp_min |-> 16, temp_max |-> 23,
       description |-> "Light rain", humidity |-> 70],
      [t |-> "dict", date |-> "Day 5", temp_min |-> 18, temp_max |-> 24,
       description |-> "Sunny", humidity |-> 52]>>

\* {**d, key: value, ...}: the keys of extra added to (or replacing) d's.
With(d, extra) == extra @@ d

get_current_weather(city, env, http) ==
    IF ~env.OPENWEATHER_API_KEY
    THEN With(SAMPLE_CURRENT,
              [city |-> city, note |-> "SAMPLE DATA - OPENWEATHER_API_KEY not set"])
    ELSE IF ~http.ok
    THEN With(SAMPLE_CURRENT,
              [city |-> city, note |-> "SAMPLE DATA - API error: " \o http.msg])
    ELSE [t |-> "dict", city |-> city,
          temp_c |-> http.data.temp,
          feels_like_c |-> http.data.feels_like,
          description |-> Title(http.data.description),
          humidity |-> http.data.humidity,
          wind_kph |-> http.data.speed * 36,
          icon |-> http.data.icon,
          sample |-> FALSE]

\* The dates of the 3-hour items, each once, in order of first appearance.
RECURSIVE Dates(_, _)
Dates(items, seen) ==
    IF Len(items) = 0 THEN <<>>
    ELSE IF items[1].date \in seen THEN Dates(Tail(items), seen)
    ELSE <<items[1].date>> \o Dates(Tail(items), seen \cup {items[1].date})

Min(S) == CHOOSE x \in S : \A y \in S : x <= y

Max(S) == CHOOSE x \in S : \A y \in S : x >= y

RECURSIVE Sum(_)
Sum(xs) == IF Len(xs) = 0 THEN 0 ELSE xs[1] + Sum(Tail(xs))

\* round(num / den): to the nearest integer, a half to the even one.
RoundHalfEven(num, den) ==
    LET q == num \div den
        r == num % den IN
    IF 2 * r < den THEN q
    ELSE IF 2 * r > den THEN q + 1
    ELSE IF q % 2 = 0 THEN q ELSE q + 1

\* max(set(xs), key=xs.count): a most frequent element.
Mode(xs) ==
    LET Count(x) == Cardinality({i \in DOMAIN xs : xs[i] = x}) IN
    CHOOSE x \in Range(xs) : \A y \in Range(xs) : Count(x) >= Count(y)

\* One day of the forecast, from the items of that date.
DailyForecast(items, date) ==
    LET of == SelectSeq(items, LAMBDA it : it.date = date)
        temps == {of[i].temp : i \in DOMAIN of}
        descriptions == [i \in DOMAIN of |-> of[i].description]
        humidities == [i \in DOMAIN of |-> of[i].humidity] IN
    [t |-> "dict", date |-> date,
     temp_min |-> Min(temps), temp_max |-> Max(temps),
     description |-> Title(Mode(descriptions)),
     humidity |-> RoundHalfEven(Sum(humidities), Len(humidities)),
     sample |-> FALSE]

get_weather_forecast(city, env, http) ==
    IF ~env.OPENWEATHER_API_KEY
    THEN List([i \in DOMAIN SAMPLE_FORECAST |->
                  With([sample |-> TRUE, note |-> "SAMPLE DATA"], SAMPLE_FORECAST[i])])
    ELSE IF ~http.ok
    THEN List([i \in DOMAIN SAMPLE_FORECAST |->
                  With([sample |-> TRUE,
                        note |-> "SAMPLE DATA - API error: " \o http.msg],
                       SAMPLE_FORECAST[i])])
    ELSE LET days == Take(Dates(http.data, {}), 5) IN
         List([i \in DOMAIN days |-> DailyForecast(http.data, days[i])])

(***************************************************************************)
(* The random module and str hashing, as the sample generators use them.   *)
(* The generator is a linear congruential one on a 16-bit word and the     *)
(* hash a polynomial over the codes of the strings joined; both stand for  *)
(* CPython's, of which the tools use only that equal seeds give equal      *)
(* draws.  CPython keys str hashing with a value drawn when the            *)
(* interpreter starts (PYTHONHASHSEED unset), so the hash of a string is   *)
(* the same within one process and differs from one process to the next.   *)
(***************************************************************************)
StrCode(s) ==
    CASE s = "Tokyo" -> 11
      [] s = " Paris " -> 23
      [] s = "Atlantis" -> 37
      [] s = "Delhi" -> 41
      [] s = "2025-06-01" -> 53
      [] s = "2025-06-05" -> 67

\* hash(f"{a}{b}{c}") in an interpreter whose hash key is key.
RECURSIVE HashCat(_, _)
HashCat(key, parts) ==
    IF Len(parts) = 0 THEN key
    ELSE (31 * HashCat(key, SubSeq(parts, 1, Len(parts) - 1))
            + StrCode(parts[Len(parts)])) % 65521

\* random.seed(h % (2**31)): the generator's state after seeding.
Seed(h) == h % 32768

\* One step of the generator.
Rand(state) == (75 * state + 74) % 65537

\* p * q modulo 65537 for p, q up to 65537, within 32-bit integers.
MulMod(p, q) == ((((p * (q \div 256)) % 65537) * 256) + p * (q % 256)) % 65537

\* 75^k modulo 65537, by squaring.
RECURSIVE Pow75(_)
Pow75(k) ==
    IF k = 0 THEN 1
    ELSE LET half == Pow75(k \div 2)
             square == MulMod(half, half) IN
         IF k % 2 = 1 THEN MulMod(square, 75) ELSE square

\* The state after k draws: Rand applied k times, which is
\* 75^k * (state + 1) - 1 modulo 65537.
Adv(state, k) == (MulMod(Pow75(k), state + 1) + 65536) % 65537

\* random.randint(a, b) and random.choice(xs), from the state drawn.
RandInt(draw, a, b) == a + (draw % (b - a + 1))

Choice(draw, xs) == xs[1 + (draw % Len(xs))]

\* A sort that is ascending and puts the later of two equal keys first.
StableSort_ties_reversed(xs, keys) ==
    LET Before(j, i) == keys[j] < keys[i] \/ (keys[j] = keys[i] /\ j > i)
        Rank(i) == 1 + Cardinality({j \in DOMAIN xs : Before(j, i)}) IN
    [r \in DOMAIN xs |-> xs[CHOOSE i \in DOMAIN xs : Rank(i) = r]]

\* xs.sort(key=...): stable, ascending; keys[i] is the key of xs[i].
StableSort(xs, keys) ==
    LET Before(j, i) == keys[j] < keys[i] \/ (keys[j] = keys[i] /\ j < i)
        Rank(i) == 1 + Cardinality({j \in DOMAIN xs : Before(j, i)}) IN
    [r \in DOMAIN xs |-> xs[CHOOSE i \in DOMAIN xs : Rank(i) = r]]

(***************************************************************************)
(* tools/flights.py                                                        *)
(***************************************************************************)
AIRLINES ==
    <<"Air India", "IndiGo", "Emirates", "Singapore Airlines", "Japan Airlines",
      "ANA", "Delta", "United Airlines", "British Airways", "Lufthansa",
      "Qatar Airways", "Thai Airways", "Korean Air", "Cathay Pacific",
      "Turkish Airlines">>

DURATIONS ==
    <<"2h 30m", "3h 15m", "4h 00m", "5h 45m", "7h 20m", "8h 10m", "10h 30m",
      "12h 00m", "14h 25m", "16h 50m">>

\* random.choices([0, 1, 2], weights=[40, 45, 15])[0]
Stops(draw) ==
    LET w == draw % 100 IN
    IF w < 40 THEN 0 ELSE IF w < 85 THEN 1 ELSE 2

\* The loop body of search_flights, from the generator's state before it;
\* it draws nine times.
Flight(state, from_city, to_city, date, travelers) ==
    LET airline == Choice(Adv(state, 1), AIRLINES)
        dep_hour == RandInt(Adv(state, 2), 5, 22)
        dep_min == Choice(Adv(state, 3), <<0, 15, 30, 45>>)
        stops == Stops(Adv(state, 4))
        base_price == RandInt(Adv(state, 5), 150, 1200)
        raw == base_price + stops * RandInt(Adv(state, 6), 0 - 50, 100)
        price_per_person == IF raw < 100 THEN 100 ELSE raw IN
    [t |-> "dict",
     airline |-> airline,
     flight_no |-> [prefix |-> airline, number |-> RandInt(Adv(state, 7), 100, 999)],
     from |-> from_city, to |-> to_city, date |-> date,
     departure |-> [hour |-> dep_hour, minute |-> dep_min],
     duration |-> Choice(Adv(state, 8), DURATIONS),
     stops |-> stops,
     stop_label |-> (IF stops = 0 THEN "Non-stop"
                     ELSE IF stops > 1 THEN "2 stops" ELSE "1 stop"),
     price_usd |-> price_per_person,
     total_usd |-> price_per_person * travelers,
     travelers |-> travelers,
     class |-> Choice(Adv(state, 9),
                      <<"Economy", "Economy", "Economy", "Premium Economy",
                        "Business">>),
     sample |-> TRUE,
     note |-> "SAMPLE DATA - real flight API not connected"]

\* The loop of search_flights from the generator's state after seeding:
\* the records in the order they are generated.
generate_flights(seeded, from_city, to_city, date, travelers) ==
    LET num_options == RandInt(Adv(seeded, 1), 3, 5) IN
    [i \in 1 .. num_options |->
        Flight(Adv(seeded, 1 + 9 * (i - 1)), from_city, to_city, date, travelers)]

\* flights.sort(key=lambda x: x["price_usd"])
sort_flights(flights) ==
    StableSort(flights, [i \in DOMAIN flights |-> flights[i].price_usd])

\* random.seed(hash(f"{from_city}{to_city}{date}") % (2**31))
flights_seed(key, from_city, to_city, date) ==
    Seed(HashCat(key, <<from_city, to_city, date>>))

\* search_flights run without interruption in an interpreter whose hash key
\* is key.
search_flights(key, from_city, to_city, date, travelers) ==
    List(sort_flights(generate_flights(flights_seed(key, from_city, to_city, date),
                                       from_city, to_city, date, travelers)))

\* The state search_flights leaves the shared generator in.
search_flights_state(key, from_city, to_city, date) ==
    LET seeded == flights_seed(key, from_city, to_city, date) IN
    Adv(seeded, 1 + 9 * RandInt(Adv(seeded, 1), 3, 5))

(***************************************************************************)
(* tools/hotels.py                                                         *)
(***************************************************************************)
PREFIXES == <<"Grand", "Royal", "Imperial", "The", "Hotel", "Park", "Palace", "Heritage">>

SUFFIXES == <<"Inn", "Resort", "Suites", "Plaza", "Tower", "Residency", "Hotel", "Lodge">>

AMENITIES_POOL ==
    <<"Free WiFi", "Pool", "Spa", "Gym", "Restaurant", "Bar", "Room Service",
      "Airport Shuttle", "Parking", "Breakfast Included", "Business Center",
      "Concierge", "Laundry Service", "Ocean View">>

LOCATIONS ==
    <<"City Center", "Near Airport", "Downtown", "Business District", "Old Town",
      "Waterfront", "Cultural Quarter", "Suburban">>

\* random.sample(pool, k): k draws, each taking one of those left.
RECURSIVE Sample(_, _, _)
Sample(state, pool, k) ==
    IF k = 0 THEN <<>>
    ELSE LET at == 1 + (Rand(state) % Len(pool)) IN
         <<pool[at]>> \o Sample(Rand(state),
                                SubSeq(pool, 1, at - 1) \o SubSeq(pool, at + 1, Len(pool)),
                                k - 1)

\* The loop body of search_hotels, from the generator's state before it,
\* and the state it leaves.  rating is held in tenths.
Hotel(state, city, checkin, checkout, guests) ==
    LET rating == RandInt(Adv(state, 3), 30, 50)
        k == RandInt(Adv(state, 6), 3, 7) IN
    [state |-> Adv(state, 7 + k),
     hotel |->
        [t |-> "dict",
         name |-> Choice(Adv(state, 1), PREFIXES) \o " " \o city \o " "
                    \o Choice(Adv(state, 2), SUFFIXES),
         stars |-> Choice(Adv(state, 4), <<3, 3, 4, 4, 4, 5>>),
         rating |-> rating,
         review_score |-> [rating |-> rating, of |-> 50],
         price_per_night_usd |-> RandInt(Adv(state, 5), 40, 350),
         total_usd |-> "varies by nights",
         guests |-> guests,
         location |-> Choice(Adv(state, 7 + k), LOCATIONS),
         amenities |-> Sample(Adv(state, 6), AMENITIES_POOL, k),
         checkin |-> checkin, checkout |-> checkout,
         sample |-> TRUE,
         note |-> "SAMPLE DATA - real hotel API not connected"]]

RECURSIVE Hotels(_, _, _, _, _, _)
Hotels(state, n, city, checkin, checkout, guests) ==
    IF n = 0 THEN <<>>
    ELSE LET h == Hotel(state, city, checkin, checkout, guests) IN
         <<h>> \o Hotels(h.state, n - 1, city, checkin, checkout, guests)

\* The rounds of the loop of search_hotels from the generator's state after
\* seeding: num_options is drawn first.
hotel_rounds(seeded, city, checkin, checkout, guests) ==
    Hotels(Adv(seeded, 1), RandInt(Adv(seeded, 1), 4, 6), city, checkin, checkout, guests)

\* The records in the order they are generated.
generate_hotels(seeded, city, checkin, checkout, guests) ==
    LET rounds == hotel_rounds(seeded, city, checkin, checkout, guests) IN
    [i \in DOMAIN rounds |-> rounds[i].hotel]

\* hotels.sort(key=lambda x: x["price_per_night_usd"])
sort_hotels(hotels) ==
    StableSort(hotels, [i \in DOMAIN hotels |-> hotels[i].price_per_night_usd])

\* random.seed(hash(f"{city}{checkin}{checkout}") % (2**31))
hotels_seed(key, city, checkin, checkout) ==
    Seed(HashCat(key, <<city, checkin, checkout>>))

\* search_hotels run without interruption in an interpreter whose hash key
\* is key.
search_hotels(key, city, checkin, checkout, guests) ==
    List(sort_hotels(generate_hotels(hotels_seed(key, city, checkin, checkout),
                                     city, checkin, checkout, guests)))

\* The state search_hotels leaves the shared generator in.
search_hotels_state(key, city, checkin, checkout, guests) ==
    LET rounds == hotel_rounds(hotels_seed(key, city, checkin, checkout),
                               city, checkin, checkout, guests) IN
    rounds[Len(rounds)].state

(***************************************************************************)
(* tools/places.py.  rating is held in tenths; accented letters of the     *)
(* curated names are written unaccented.                                   *)
(***************************************************************************)
Attraction(name, category, description, rating) ==
    [t |-> "dict", name |-> name, category |-> category,
     description |-> description, rating |-> rating]

CURATED_KEYS == {"tokyo", "udaipur", "new york", "london", "paris"}

\* CURATED_ATTRACTIONS[key], for the curated cities the model visits.
CURATED_ATTRACTIONS(key) ==
    CASE key = "tokyo" ->
           <<Attraction("Senso-ji Temple", "Temple",
                        "Tokyo's oldest and most significant Buddhist temple in Asakusa.", 47),
             Attraction("Shibuya Crossing", "Landmark",
                        "The world's busiest pedestrian crossing, iconic Tokyo experience.", 45),
             Attraction("Meiji Shrine", "Shrine",
                        "Serene Shinto shrine surrounded by a lush forest in central Tokyo.", 48),
             Attraction("Tokyo Skytree", "Observation",
                        "Tallest tower in Japan (634m) with panoramic city views.", 46),
             Attraction("Tsukiji Outer Market", "Food",
                        "World-famous fish market area with incredible street food.", 45),
             Attraction("Akihabara", "Shopping",
                        "Electronics and anime/manga hub, vibrant pop-culture district.", 44)>>
      [] key = "paris" ->
           <<Attraction("Eiffel Tower", "Landmark",
                        "Iconic iron lattice tower, symbol of Paris.", 47),
             Attraction("Louvre Museum", "Museum",
                        "World's largest art museum, home to the Mona Lisa.", 48),
             Attraction("Notre-Dame Cathedral", "Cathedral",
                        "Medieval Catholic cathedral, masterpiece of Gothic architecture.", 47),
             Attraction("Champs-Elysees", "Street",
                        "Famous avenue known for luxury shops, cafes, and theatres.", 45),
             Attraction("Sacre-Coeur Basilica", "Church",
                        "White-domed basilica at the summit of Montmartre.", 46),
             Attraction("Musee d'Orsay", "Museum",
                        "Impressionist masterpieces housed in a former railway station.", 47)>>

\* The texts a backend may answer the attractions prompt with.
ListText ==
    Str("1. Old Harbor | Landmark | Historic port. | 4.6/5; "
        \o "2. Sea Museum | Museum | Maritime history.; "
        \o "3. Fish Market | Market | Morning catch. | great; "
        \o "4. no separators; Enjoy your trip!")

ErrorText == Str("Error: quota exceeded")

\* response.strip().split("\n"), each line stripped; of a line that starts
\* with a digit, the text after the first "." split at "|" and stripped.
Lines(response) ==
    IF response = ListText
    THEN <<[digit |-> TRUE, parts |-> <<"Old Harbor", "Landmark", "Historic port.", "4.6/5">>],
           [digit |-> TRUE, parts |-> <<"Sea Museum", "Museum", "Maritime history.">>],
           [digit |-> TRUE, parts |-> <<"Fish Market", "Market", "Morning catch.", "great">>],
           [digit |-> TRUE, parts |-> <<"no separators">>],
           [digit |-> FALSE, parts |-> <<"Enjoy your trip!">>]>>
    ELSE IF response = Str("") THEN <<[digit |-> FALSE, parts |-> <<"">>]>>
    ELSE <<[digit |-> FALSE, parts |-> <<response.s>>]>>

\* response.startswith("Error") or response.startswith("LLM Error")
StartsWithError(response) == response = ErrorText

\* float(s.replace("/5", "").strip()) in tenths; -1 where float raises
\* ValueError.
FloatOf(s) ==
    CASE s = "4.6/5" -> 46
      [] s = "great" -> 0 - 1

\* The attraction parsed from one line, <<>> for a line that is skipped.
ParseLine(line) ==
    IF ~line.digit THEN <<>>
    ELSE IF Len(line.parts) >= 3
    THEN LET rating == IF Len(line.parts) >= 4
                       THEN (IF FloatOf(line.parts[4]) < 0 THEN 45
                             ELSE FloatOf(line.parts[4]))
                       ELSE 45 IN
         <<Attraction(line.parts[1], line.parts[2], line.parts[3], rating)>>
    ELSE <<>>

RECURSIVE ParseLines(_)
ParseLines(lines) ==
    IF Len(lines) = 0 THEN <<>> ELSE ParseLine(lines[1]) \o ParseLines(Tail(lines))

\* The final fallback of get_attractions.
GenericAttractions(city) ==
    <<Attraction(city \o " City Center", "Landmark",
                 "Explore the vibrant city center of " \o city \o ".", 43),
      Attraction(city \o " Historic District", "Heritage",
                 "Walk through the historical areas of " \o city \o ".", 44),
      Attraction(city \o " Local Market", "Market",
                 "Experience local culture at " \o city \o "'s famous markets.", 42),
      Attraction(city \o " Museum", "Museum",
                 "Discover the art and history of " \o city \o ".", 45),
      Attraction(city \o " Park/Garden", "Park",
                 "Relax in the beautiful green spaces of " \o city \o ".", 43)>>

\* A variant of get_attractions without the "if attractions" test: whatever
\* was parsed is returned, an empty list included.
get_attractions_returns_parsed(city, gateway) ==
    LET city_lower == LowerStrip(city) IN
    IF city_lower \in CURATED_KEYS
    THEN [result |-> List(CURATED_ATTRACTIONS(city_lower)), asked |-> FALSE]
    ELSE IF gateway.raised \/ StartsWithError(gateway.result)
    THEN [result |-> List(GenericAttractions(city)), asked |-> TRUE]
    ELSE [result |-> List(ParseLines(Lines(gateway.result))), asked |-> TRUE]

\* get_attractions: the list returned and the gateway call made, if any
\* (gateway is what ask_gemini would do if called).
get_attractions(city, gateway) ==
    LET city_lower == LowerStrip(city) IN
    IF city_lower \in CURATED_KEYS
    THEN [result |-> List(CURATED_ATTRACTIONS(city_lower)), asked |-> FALSE]
    ELSE IF gateway.raised \/ StartsWithError(gateway.result)
    THEN [result |-> List(GenericAttractions(city)), asked |-> TRUE]
    ELSE LET attractions == ParseLines(Lines(gateway.result)) IN
         IF Len(attractions) > 0
         THEN [result |-> List(attractions), asked |-> TRUE]
         ELSE [result |-> List(GenericAttractions(city)), asked |-> TRUE]

(***************************************************************************)
(* tools/currency_fx.py.  Rates are held in units of 0.00001, currency     *)
(* symbols as their ASCII names.                                           *)
(***************************************************************************)
\* d.get(k, default)
Get(d, k, default) == IF k \in DOMAIN d THEN d[k] ELSE default

FALLBACK_CURRENCY_KEYS ==
    {"japan", "india", "united states", "south korea", "china", "united kingdom"}

\* FALLBACK_CURRENCIES[key], for the countries the model visits.
FALLBACK_CURRENCIES(key) ==
    CASE key = "japan" ->
           [currency_code |-> "JPY", currency_name |-> "Japanese yen",
            currency_symbol |-> "YEN", capital |-> "Tokyo", latlng |-> <<36, 138>>]
      [] key = "india" ->
           [currency_code |-> "INR", currency_name |-> "Indian rupee",
            currency_symbol |-> "RUPEE", capital |-> "New Delhi", latlng |-> <<20, 77>>]

FALLBACK_RATE_KEYS == {"JPY", "INR", "USD", "KRW", "CNY", "GBP"}

\* FALLBACK_RATES[code], for the codes the model reaches.
FALLBACK_RATES(code) ==
    CASE code = "JPY" -> [USD |-> 670, INR |-> 56000, GBP |-> 530, EUR |-> 620]
      [] code = "INR" -> [USD |-> 1200, INR |-> 100000, GBP |-> 950, EUR |-> 1100]
      [] code = "USD" -> [USD |-> 100000, INR |-> 8350000, GBP |-> 79000, EUR |-> 92000]

ZeroRates == [USD |-> 0, INR |-> 0, GBP |-> 0, EUR |-> 0]

get_currency_info(country, http) ==
    LET country_lower == LowerStrip(country)
        data == http.data
        c == data[1]
        currencies == Get(c, "currencies", <<>>)
        cur == currencies[1]
        live ==
            http.ok /\ Len(http.data) > 0 /\ Len(Get(http.data[1], "currencies", <<>>)) > 0 IN
    IF live
    THEN [t |-> "dict",
          country |-> Get(Get(c, "name", [x \in {} |-> ""]), "common", country),
          currency_code |-> cur.code,
          currency_name |-> Get(cur, "name", "Unknown"),
          currency_symbol |-> Get(cur, "symbol", ""),
          capital |-> (IF Len(Get(c, "capital", <<>>)) > 0 THEN c.capital[1] ELSE "Unknown"),
          latlng |-> Get(c, "latlng", <<0, 0>>),
          flag |-> Get(c, "flag", ""),
          sample |-> FALSE]
    ELSE IF country_lower \in FALLBACK_CURRENCY_KEYS
    THEN With(FALLBACK_CURRENCIES(country_lower),
              [t |-> "dict", country |-> country, flag |-> "", sample |-> TRUE,
               note |-> "Fallback data used"])
    ELSE [t |-> "dict", country |-> country, currency_code |-> "N/A",
          currency_name |-> "Unknown", currency_symbol |-> "", capital |-> "Unknown",
          latlng |-> <<0, 0>>, flag |-> "", sample |-> TRUE,
          note |-> "Country not found"]

get_fx_rates(currency_code, env, http) ==
    LET Fallback(found, missing) ==
            IF currency_code \in FALLBACK_RATE_KEYS
            THEN [t |-> "dict", base |-> currency_code,
                  rates |-> FALLBACK_RATES(currency_code), last_updated |-> "N/A",
                  sample |-> TRUE, note |-> found]
            ELSE [t |-> "dict", base |-> currency_code, rates |-> ZeroRates,
                  last_updated |-> "N/A", sample |-> TRUE, note |-> missing] IN
    IF ~env.EXCHANGERATE_API_KEY
    THEN Fallback("SAMPLE DATA - EXCHANGERATE_API_KEY not set",
                  "Currency not found in fallback data")
    ELSE IF http.ok /\ Get(http.data, "result", "") = "success"
    THEN LET all_rates == Get(http.data, "conversion_rates", [x \in {} |-> 0]) IN
         [t |-> "dict", base |-> currency_code,
          rates |-> [tc \in {"USD", "INR", "GBP", "EUR"} |-> Get(all_rates, tc, 0)],
          last_updated |-> Get(http.data, "time_last_update_utc", "Unknown"),
          sample |-> FALSE]
    ELSE Fallback("Fallback data - API error", "Currency not found")

(***************************************************************************)
(* tools/exchanges.py.  Coordinates are held in units of 0.0001.           *)
(***************************************************************************)
EXCHANGE_KEYS ==
    {"japan", "india", "united states", "south korea", "china", "united kingdom"}

Exchange(name, city, lat, lon, query, established, description, major_indices) ==
    [t |-> "dict", name |-> name, city |-> city, lat |-> lat, lon |-> lon,
     maps_link |-> "https://www.google.com/maps/search/?api=1&query=" \o query,
     established |-> established, description |-> description,
     major_indices |-> major_indices]

\* EXCHANGES[key], for the countries the model visits.
EXCHANGES(key) ==
    CASE key = "japan" ->
           <<Exchange("Tokyo Stock Exchange (TSE)", "Tokyo", 356815, 1397740,
                      "Tokyo+Stock+Exchange", "1878",
                      "Third-largest stock exchange in the world by market capitalization.",
                      <<"Nikkei 225", "TOPIX">>)>>
      [] key = "india" ->
           <<Exchange("Bombay Stock Exchange (BSE)", "Mumbai", 189300, 728347,
                      "Bombay+Stock+Exchange+Mumbai", "1875",
                      "Asia's oldest stock exchange, located at Dalal Street, Mumbai.",
                      <<"BSE SENSEX">>),
             Exchange("National Stock Exchange (NSE)", "Mumbai", 190544, 728407,
                      "National+Stock+Exchange+Mumbai", "1992",
                      "India's leading stock exchange by trading volume.",
                      <<"NIFTY 50">>)>>

\* country.replace(' ', '+'), on the unlisted countries of the model.
ReplaceSpaces(country) ==
    CASE country = "France" -> "France"

\* A variant of get_exchange_info: no placeholder for an unlisted country.
get_exchange_info_no_placeholder(country) ==
    LET country_lower == LowerStrip(country) IN
    IF country_lower \notin EXCHANGE_KEYS THEN List(<<>>)
    ELSE List(EXCHANGES(country_lower))

get_exchange_info(country) ==
    LET country_lower == LowerStrip(country) IN
    IF country_lower \notin EXCHANGE_KEYS
    THEN List(<<[t |-> "dict", name |-> country \o " Stock Exchange", city |-> "Unknown",
                 maps_link |-> "https://www.google.com/maps/search/?api=1&query="
                               \o ReplaceSpaces(country) \o "+Stock+Exchange",
                 established |-> "N/A",
                 description |-> "Stock exchange information for " \o country
                                 \o " not in database.",
                 major_indices |-> <<>>, sample |-> TRUE]>>)
    ELSE List(EXCHANGES(country_lower))

(***************************************************************************)
(* tools/stocks.py.  Index values are held in hundredths.                  *)
(***************************************************************************)
COUNTRY_INDEX_KEYS ==
    {"japan", "india", "united states", "south korea", "china", "united kingdom"}

\* COUNTRY_INDICES[key], for the countries the model visits.
COUNTRY_INDICES(key) ==
    CASE key = "japan" ->
           <<[name |-> "Nikkei 225", ticker |-> "^N225", exchange |-> "Tokyo Stock Exchange"],
             [name |-> "TOPIX", ticker |-> "^TOPX", exchange |-> "Tokyo Stock Exchange"]>>
      [] key = "india" ->
           <<[name |-> "BSE SENSEX", ticker |-> "^BSESN", exchange |-> "Bombay Stock Exchange"],
             [name |-> "NIFTY 50", ticker |-> "^NSEI", exchange |-> "National Stock Exchange"]>>

FALLBACK_VALUES(ticker) ==
    CASE ticker = "^N225" -> 3850000
      [] ticker = "^TOPX" -> 270000
      [] ticker = "^BSESN" -> 7350000
      [] ticker = "^NSEI" -> 2220000

\* One record of get_stock_indices; quote is what the market-data library
\* does for the ticker: it raises, or it answers a history of closes.
IndexRecord(idx_info, quote) ==
    LET Sampled(msg) ==
            [t |-> "dict", index_name |-> idx_info.name, ticker |-> idx_info.ticker,
             exchange |-> idx_info.exchange, value |-> FALLBACK_VALUES(idx_info.ticker),
             change |-> 0, change_pct |-> 0, sample |-> TRUE,
             note |-> "Fallback data - " \o msg] IN
    IF ~quote.ok THEN Sampled(quote.msg)
    ELSE IF Len(quote.data) = 0 THEN Sampled("No data returned")
    ELSE LET n == Len(quote.data)
             current == quote.data[n]
             prev == quote.data[n - 1]
             change == current - prev IN
         [t |-> "dict", index_name |-> idx_info.name, ticker |-> idx_info.ticker,
          exchange |-> idx_info.exchange, value |-> current,
          change |-> (IF n >= 2 THEN change ELSE 0),
          change_pct |-> (IF n >= 2 THEN RoundHalfEven(change * 10000, prev) ELSE 0),
          sample |-> FALSE]

\* quotes[i] is the library's answer for the i-th index of the country.
get_stock_indices(country, quotes) ==
    LET country_lower == LowerStrip(country) IN
    IF country_lower \notin COUNTRY_INDEX_KEYS
    THEN List(<<[t |-> "dict", error |-> "No index data available for " \o country,
                 sample |-> TRUE]>>)
    ELSE LET indices_info == COUNTRY_INDICES(country_lower) IN
         List([i \in DOMAIN indices_info |-> IndexRecord(indices_info[i], quotes[i])])

(***************************************************************************)
(* The recorder driven by an arbitrary caller.                             *)
(***************************************************************************)
\* What the orchestrators pass to start_call: a tool name and its keyword
\* arguments (agent_trip.py:38,85; agent_market.py:87).
StartArgs ==
    {[tool_name |-> "get_current_weather", inputs |-> [city |-> "Tokyo"]],
     [tool_name |-> "llm_market_summary",
      inputs |-> [country |-> "Japan", prompt_type |-> "market_overview"]]}

\* What the orchestrators pass to end_call: an output and no error, or no
\* output and str(e); str(e) is empty for an exception without a message.
EndArgs ==
    {[output |-> Str("Used pre-written fallback (LLM unavailable)"), error |-> None],
     [output |-> None, error |-> Str("boom")],
     [output |-> None, error |-> Str("")]}

Handles == (0 - (MaxCalls + 1)) .. (MaxCalls + 1)

NoRet ==
    [op |-> "none", tool_name |-> "", inputs |-> [city |-> ""], index |-> 0,
     output |-> None, error |-> None, handle |-> 0, raised |-> FALSE,
     before |-> "none"]

\* No credential set, ask_gemini not called yet.
NoEnviron ==
    [GROQ_API_KEY |-> FALSE, GOOGLE_API_KEY |-> FALSE, HAS_GOOGLE |-> TRUE,
     OPENWEATHER_API_KEY |-> FALSE, EXCHANGERATE_API_KEY |-> FALSE]

NoLLM ==
    [op |-> "none", groq |-> Raises, gemini |-> Raises, result |-> None,
     attempts |-> <<>>, raised |-> FALSE]

\* No orchestrator running.
NoReq == [agent |-> "none"]

EmptyDict == [k \in {} |-> None]

InitTrace ==
    /\ calls = <<>>
    /\ now = 0
    /\ ret = NoRet
    /\ started = <<>>

InitNoRun ==
    /\ req = NoReq
    /\ pc = "none"
    /\ idx = 0
    /\ results = EmptyDict
    /\ net = <<>>

\* The hash keys an interpreter may start with.
HashSeeds == {3, 7}

\* The states the shared generator may be in before it is first seeded.
RngStarts == {0, 1}

\* No overlapping runs, no sample-generator call made yet.
NoRuns == <<>>

InitNoSamples ==
    /\ hashseed = 7
    /\ rng = 0
    /\ log = <<>>
    /\ runs = NoRuns

Init ==
    /\ InitTrace
    /\ environ = NoEnviron
    /\ llm = NoLLM
    /\ InitNoRun
    /\ InitNoSamples

\* The readings time.time() may give to an operation: the clock has not gone back.
Clock == now .. MaxTime

\* trace.start_call(tool_name, inputs) at clock reading t.
DoStartCall(tool_name, inputs, t) ==
    LET r == start_call(calls, tool_name, inputs, t) IN
    /\ calls' = r.calls
    /\ ret' = [NoRet EXCEPT !.op = "start_call", !.tool_name = tool_name,
                            !.inputs = inputs, !.handle = r.handle]
    /\ now' = t
    /\ started' = Append(started, [tool_name |-> tool_name, inputs |-> inputs,
                                    handle |-> r.handle, time |-> t])

\* trace.end_call(index, output, error) at clock reading t.
DoEndCall(index, output, error, t) ==
    LET r == end_call(calls, index, output, error, t) IN
    /\ calls' = r.calls
    /\ ret' = IF r.raised
              THEN [NoRet EXCEPT !.op = "end_call", !.index = index, !.raised = TRUE]
              ELSE [NoRet EXCEPT !.op = "end_call", !.index = index,
                                 !.output = output, !.error = error,
                                 !.before = calls[PyIndex(Len(calls), index)].status]
    /\ now' = t
    /\ UNCHANGED started

StartCall ==
    \E a \in StartArgs, t \in Clock :
        /\ Len(calls) < MaxCalls /\ Len(started) < MaxCalls
        /\ DoStartCall(a.tool_name, a.inputs, t)
        /\ UNCHANGED llmVars
        /\ UNCHANGED runVars
        /\ UNCHANGED genVars

EndCall ==
    \E index \in Handles, a \in EndArgs, t \in Clock :
        /\ DoEndCall(index, a.output, a.error, t)
        /\ UNCHANGED llmVars
        /\ UNCHANGED runVars
        /\ UNCHANGED genVars

Next == StartCall \/ EndCall

Spec == Init /\ [][Next]_vars

(***************************************************************************)
(* The gateway called under every credential configuration (SpecLLM).      *)
(***************************************************************************)
Environs ==
    [GROQ_API_KEY : BOOLEAN, GOOGLE_API_KEY : BOOLEAN, HAS_GOOGLE : BOOLEAN,
     OPENWEATHER_API_KEY : {FALSE}, EXCHANGERATE_API_KEY : {FALSE}]

\* The texts a backend may answer with: any string, the empty one and the
\* one ask_gemini uses as its sentinel included.
Texts == {Str(""), Str("Generated text"), LLM_UNAVAILABLE}

BackendOutcomes == {Raises, Returns(None)} \cup {Returns(x) : x \in Texts}

InitLLM ==
    /\ InitTrace
    /\ environ \in Environs
    /\ llm = NoLLM
    /\ InitNoRun
    /\ InitNoSamples

AskGemini ==
    \E groq \in BackendOutcomes, gemini \in BackendOutcomes :
        LET r == ask_gemini(environ, groq, gemini) IN
        /\ llm' = [op |-> "ask_gemini", groq |-> groq, gemini |-> gemini,
                   result |-> r.result, attempts |-> r.attempts,
                   raised |-> r.raised]
        /\ UNCHANGED environ
        /\ UNCHANGED traceVars
        /\ UNCHANGED runVars
        /\ UNCHANGED genVars

NextLLM == AskGemini

SpecLLM == InitLLM /\ [][NextLLM]_vars

(***************************************************************************)
(* utils/agent_trip.py and utils/agent_market.py: one orchestrator run.    *)
(* pc is the step the run is at: the step's name before its start_call,    *)
(* the name followed by ":fn" while the step's work is under way, "return" *)
(* once the response is returned, "raised" if the run raised.  llm holds   *)
(* the gateway call made by the step under way.                            *)
(***************************************************************************)
InFn(step) == step \o ":fn"

\* d[k] = v
Put(d, k, v) == (k :> v) @@ d

\* The reading time.time() gives when a step's work is over; the next step
\* starts at the same reading.
RunClock == {now + StepTicks}

\* What the upstream services answer in a run.
CurrentOutcomes ==
    {HttpFails("timeout"),
     HttpOk([temp |-> 18, feels_like |-> 17, description |-> "light rain",
             humidity |-> 80, speed |-> 5, icon |-> "10d"])}

ForecastOutcomes ==
    {HttpFails("timeout"),
     HttpOk(<<[date |-> "2025-06-01", temp |-> 18, description |-> "light rain",
               humidity |-> 80],
              [date |-> "2025-06-01", temp |-> 21, description |-> "clear sky",
               humidity |-> 61],
              [date |-> "2025-06-02", temp |-> 20, description |-> "clear sky",
               humidity |-> 70]>>)}

CountryOutcomes(country) ==
    {HttpFails("404"), HttpOk(<<>>)}
    \cup (CASE country = "Japan" ->
                 {HttpOk(<<[name |-> [common |-> "Japan"],
                            currencies |-> <<[code |-> "JPY", name |-> "Japanese yen",
                                              symbol |-> "YEN"]>>,
                            capital |-> <<"Tokyo">>, latlng |-> <<36, 138>>,
                            flag |-> "JP"]>>)}
            [] country = " India " ->
                 {HttpOk(<<[name |-> [common |-> "India"],
                            currencies |-> <<[code |-> "INR", name |-> "Indian rupee",
                                              symbol |-> "RUPEE"]>>,
                            capital |-> <<"New Delhi">>, latlng |-> <<20, 77>>]>>)}
            [] country = "France" ->
                 {HttpOk(<<[name |-> [common |-> "France"],
                            currencies |-> <<[code |-> "EUR", name |-> "Euro",
                                              symbol |-> "EUR"]>>,
                            capital |-> <<"Paris">>, latlng |-> <<46, 2>>,
                            flag |-> "FR"]>>)})

RateOutcomes ==
    {HttpFails("timeout"),
     HttpOk([result |-> "error"]),
     HttpOk([result |-> "success",
             conversion_rates |-> [USD |-> 108000, INR |-> 9000000, GBP |-> 86000],
             time_last_update_utc |-> "Mon, 02 Jun 2025 00:00:01 +0000"])}

QuoteOutcomes == {HttpFails("No timezone found"), HttpOk(<<>>), HttpOk(<<10000, 10250>>)}

\* What a backend answers a text prompt with, and the attractions prompt.
TextOutcomes == {Raises, Returns(Str("Generated text")), Returns(LLM_UNAVAILABLE)}

ListOutcomes == {Raises, Returns(ListText), Returns(Str("Generated text")), Returns(ErrorText)}

\* str(e) of the exceptions an adapter invocation raises; they come from
\* outside the adapters' own code and upstream services (a MemoryError, a
\* replaced registry entry), whose failures the adapters absorb.
FaultMessages == {"boom", ""}

\* ask_gemini as a step calls it: the answer, and what llm records of it.
Ask(outcomes) ==
    {ask_gemini(environ, groq, gemini) :
        groq \in (IF environ.GROQ_API_KEY THEN outcomes ELSE {Raises}),
        gemini \in (IF environ.GOOGLE_API_KEY THEN outcomes ELSE {Raises})}

Asked(r) == [NoLLM EXCEPT !.op = "ask_gemini", !.result = r.result, !.attempts = r.attempts]

\* The HTTP requests an adapter makes, in order (weather.py, currency_fx.py).
get_current_weather_requests(env) ==
    IF ~env.OPENWEATHER_API_KEY THEN <<>>
    ELSE <<"https://api.openweathermap.org/data/2.5/weather">>

get_weather_forecast_requests(env) ==
    IF ~env.OPENWEATHER_API_KEY THEN <<>>
    ELSE <<"https://api.openweathermap.org/data/2.5/forecast">>

get_currency_info_requests(country) == <<"https://restcountries.com/v3.1/name/" \o country>>

\* A variant of get_fx_rates: the request is made before the key is looked at.
get_fx_rates_requests_first(currency_code, env) ==
    <<"https://v6.exchangerate-api.com/v6/latest/" \o currency_code>>

get_fx_rates_requests(currency_code, env) ==
    IF ~env.EXCHANGERATE_API_KEY THEN <<>>
    ELSE <<"https://v6.exchangerate-api.com/v6/latest/" \o currency_code>>

\* The outcome of fn(**kwargs) when it returns, with the gateway call it made.
Returned(result) == [result |-> result, llm |-> NoLLM, net |-> <<>>]

\* The outcome of fn(**kwargs) when it returns having left the shared
\* generator in state.
Drew(result, state) == [result |-> result, llm |-> NoLLM, net |-> <<>>, rng |-> state]

\* The outcome of fn(**kwargs) when it returns after the requests to urls,
\* which the upstream service answered as http says.
Fetched(result, urls, http) ==
    [result |-> result, llm |-> NoLLM,
     net |-> [i \in DOMAIN urls |-> [url |-> urls[i], ok |-> http.ok]]]

\* _call_tool: the recorder is told of the call, and the index is kept.
CallToolStart(tool_name, kwargs) ==
    /\ DoStartCall(tool_name, kwargs, now)
    /\ idx' = start_call(calls, tool_name, kwargs, now).handle
    /\ pc' = InFn(tool_name)
    /\ llm' = NoLLM
    /\ net' = <<>>
    /\ UNCHANGED <<hashseed, log, runs, environ, req, results>>
    /\ UNCHANGED rng

\* A variant of the try branch of _call_tool: a result that is sample data
\* is recorded as a failure, its note as the error.
CallToolReturn_fallback_is_error(r, key, next, t) ==
    LET sampled == r.result.t = "dict" /\ Get(r.result, "sample", FALSE)
        error == IF sampled THEN Str(r.result.note) ELSE None IN
    /\ DoEndCall(idx, r.result, error, t)
    /\ llm' = r.llm
    /\ net' = r.net
    /\ pc' = next
    /\ results' = Put(results, key, r.result)
    /\ UNCHANGED <<hashseed, log, runs, environ, req, idx>>
    /\ rng' = IF "rng" \in DOMAIN r THEN r.rng ELSE rng

\* A variant of the try branch of _call_tool: the result is returned without
\* the recorder being told.
CallToolReturn_unrecorded(r, key, next, t) ==
    /\ llm' = r.llm
    /\ net' = r.net
    /\ pc' = next
    /\ results' = Put(results, key, r.result)
    /\ now' = t
    /\ UNCHANGED <<calls, ret, started, hashseed, log, runs, environ, req, idx>>
    /\ rng' = IF "rng" \in DOMAIN r THEN r.rng ELSE rng

\* _call_tool: fn returned r.result; it is recorded and returned to the
\* orchestrator, which stores it under key and goes on to the step next.
CallToolReturn(r, key, next, t) ==
    /\ DoEndCall(idx, r.result, None, t)
    /\ llm' = r.llm
    /\ net' = r.net
    /\ IF end_call(calls, idx, r.result, None, t).raised
       THEN pc' = "raised" /\ UNCHANGED results
       ELSE pc' = next /\ results' = Put(results, key, r.result)
    /\ UNCHANGED <<hashseed, log, runs, environ, req, idx>>
    /\ rng' = IF "rng" \in DOMAIN r THEN r.rng ELSE rng

\* A variant of the except branch of _call_tool: the failed step is recorded
\* and the response returned at once, without the steps that follow.
CallToolRaise_returns(msg, key, next, t) ==
    /\ DoEndCall(idx, None, Str(msg), t)
    /\ llm' = NoLLM
    /\ pc' = "return"
    /\ results' = Put(results, key, ErrorMarker(msg))
    /\ UNCHANGED <<hashseed, log, runs, environ, req, idx, net>>
    /\ UNCHANGED rng

\* _call_tool: fn raised an exception e with str(e) = msg.
CallToolRaise(msg, key, next, t) ==
    /\ DoEndCall(idx, None, Str(msg), t)
    /\ llm' = NoLLM
    /\ IF end_call(calls, idx, None, Str(msg), t).raised
       THEN pc' = "raised" /\ UNCHANGED results
       ELSE pc' = next /\ results' = Put(results, key, ErrorMarker(msg))
    /\ UNCHANGED <<hashseed, log, runs, environ, req, idx, net>>
    /\ UNCHANGED rng

\* A variant of a text step: the gateway's answer is kept whatever it is.
TextStepFinish_keeps_sentinel(r, fallback, key, extra, next, t) ==
    /\ DoEndCall(idx, Str(r.result.s \o "..."), None, t)
    /\ llm' = Asked(r)
    /\ pc' = next
    /\ results' = extra @@ Put(results, key, r.result)
    /\ UNCHANGED <<hashseed, log, runs, environ, req, idx, net>>
    /\ UNCHANGED rng

\* A text step whose gateway call answered r: the sentinel is replaced by
\* fallback and the trace told so, any other text is kept and its first 200
\* characters recorded (the texts of the model are shorter).
TextStepFinish(r, fallback, key, extra, next, t) ==
    LET unavailable == r.result = LLM_UNAVAILABLE
        text == IF unavailable THEN fallback ELSE r.result
        output == IF unavailable THEN Str("Used pre-written fallback (LLM unavailable)")
                  ELSE Str(r.result.s \o "...") IN
    /\ DoEndCall(idx, output, None, t)
    /\ llm' = Asked(r)
    /\ IF end_call(calls, idx, output, None, t).raised
       THEN pc' = "raised" /\ UNCHANGED results
       ELSE pc' = next /\ results' = extra @@ Put(results, key, text)
    /\ UNCHANGED <<hashseed, log, runs, environ, req, idx, net>>
    /\ UNCHANGED rng

\* A variant of the except branch of a text step: the failure is recorded
\* and the section left out of the response.
TextStepRaise_no_section(msg, fallback, key, extra, next, t) ==
    /\ DoEndCall(idx, None, Str(msg), t)
    /\ llm' = NoLLM
    /\ pc' = next
    /\ results' = extra @@ results
    /\ UNCHANGED <<hashseed, log, runs, environ, req, idx, net>>
    /\ UNCHANGED rng

\* A text step whose try block raised e with str(e) = msg before the gateway
\* was called.
TextStepRaise(msg, fallback, key, extra, next, t) ==
    /\ DoEndCall(idx, None, Str(msg), t)
    /\ llm' = NoLLM
    /\ IF end_call(calls, idx, None, Str(msg), t).raised
       THEN pc' = "raised" /\ UNCHANGED results
       ELSE pc' = next /\ results' = extra @@ Put(results, key, fallback)
    /\ UNCHANGED <<hashseed, log, runs, environ, req, idx, net>>
    /\ UNCHANGED rng

\* results["trace"] = trace: the recorder of the run, held in calls.
TheTrace == [t |-> "MCPTrace"]

\* [a.get(key, "") for a in v if isinstance(a, dict)]; iterating a dict
\* gives its keys, which are strings.
Names(v, key) ==
    IF v.t = "list"
    THEN LET dicts == SelectSeq(v.items, LAMBDA a : a.t = "dict") IN
         [i \in DOMAIN dicts |-> Get(dicts[i], key, "")]
    ELSE <<>>

\* v[:3] raises on a dict: TypeError or, where slices are hashable, KeyError.
SliceErrors == {"unhashable type: 'slice'", "slice(None, 3, None)"}

(***************************************************************************)
(* run_trip_agent (SpecTrip).                                              *)
(***************************************************************************)
TripRequests ==
    [agent : {"trip"}, from_city : {"Delhi"}, to_city : {"Tokyo", " Paris ", "Atlantis"},
     start_date : {"2025-06-01"}, end_date : {"2025-06-05"}, budget : {"Medium"},
     travelers : {2}, preferences : {""}]

TripEnvirons ==
    [GROQ_API_KEY : BOOLEAN, GOOGLE_API_KEY : BOOLEAN, HAS_GOOGLE : {TRUE},
     OPENWEATHER_API_KEY : BOOLEAN, EXCHANGERATE_API_KEY : {FALSE}]

\* Steps 2 to 6, in program order: the tool and the key its result is
\* stored under.
TripTools ==
    <<[tool |-> "get_current_weather", key |-> "current_weather"],
      [tool |-> "get_weather_forecast", key |-> "forecast"],
      [tool |-> "search_flights", key |-> "flights"],
      [tool |-> "search_hotels", key |-> "hotels"],
      [tool |-> "get_attractions", key |-> "attractions"]>>

\* A variant of the order of the steps: the hotel search left out.
TripAfter_skips_hotels(i) ==
    IF i = 3 THEN TripTools[5].tool
    ELSE IF i < Len(TripTools) THEN TripTools[i + 1].tool ELSE "llm_day_itinerary"

\* The step after the i-th of steps 2 to 6.
TripAfter(i) == IF i < Len(TripTools) THEN TripTools[i + 1].tool ELSE "llm_day_itinerary"

\* The keyword arguments _call_tool is given for a tool.
TripKwargs(tool) ==
    CASE tool = "get_current_weather" -> [city |-> req.to_city]
      [] tool = "get_weather_forecast" -> [city |-> req.to_city]
      [] tool = "search_flights" ->
            [from_city |-> req.from_city, to_city |-> req.to_city,
             date |-> req.start_date, travelers |-> req.travelers]
      [] tool = "search_hotels" ->
            [city |-> req.to_city, checkin |-> req.start_date,
             checkout |-> req.end_date, guests |-> req.travelers]
      [] tool = "get_attractions" -> [city |-> req.to_city]

\* What fn(**kwargs) may return, over the answers of the upstream services.
TripReturns(tool) ==
    CASE tool = "get_current_weather" ->
            {Fetched(get_current_weather(req.to_city, environ, http),
                     get_current_weather_requests(environ), http) :
                http \in CurrentOutcomes}
      [] tool = "get_weather_forecast" ->
            {Fetched(get_weather_forecast(req.to_city, environ, http),
                     get_weather_forecast_requests(environ), http) :
                http \in ForecastOutcomes}
      [] tool = "search_flights" ->
            {Drew(search_flights(hashseed, req.from_city, req.to_city,
                                 req.start_date, req.travelers),
                  search_flights_state(hashseed, req.from_city, req.to_city,
                                       req.start_date))}
      [] tool = "search_hotels" ->
            {Drew(search_hotels(hashseed, req.to_city, req.start_date,
                                req.end_date, req.travelers),
                  search_hotels_state(hashseed, req.to_city, req.start_date,
                                      req.end_date, req.travelers))}
      [] tool = "get_attractions" ->
            {LET a == get_attractions(req.to_city, r) IN
             [result |-> a.result, llm |-> IF a.asked THEN Asked(r) ELSE NoLLM,
              net |-> <<>>] :
                r \in Ask(ListOutcomes)}

TripMeta ==
    [t |-> "dict", from_city |-> req.from_city, to_city |-> req.to_city,
     start_date |-> req.start_date, end_date |-> req.end_date, budget |-> req.budget,
     travelers |-> req.travelers, preferences |-> req.preferences]

InitTrip ==
    /\ InitTrace
    /\ environ \in TripEnvirons
    /\ llm = NoLLM
    /\ req \in TripRequests
    /\ pc = "llm_cultural_paragraph"
    /\ idx = 0
    /\ results = EmptyDict
    /\ net = <<>>
    /\ hashseed \in HashSeeds
    /\ rng = 0
    /\ log = <<>>
    /\ runs = NoRuns

\* Step 1, up to the gateway call.
CulturalStart ==
    /\ req.agent = "trip" /\ pc = "llm_cultural_paragraph"
    /\ CallToolStart("llm_cultural_paragraph",
                     [city |-> req.to_city, prompt_type |-> "cultural_historic_info"])

\* Step 1, from the gateway's answer on.
CulturalFinish ==
    /\ req.agent = "trip" /\ pc = InFn("llm_cultural_paragraph")
    /\ \E r \in Ask(TextOutcomes), t \in RunClock :
        TextStepFinish(r, get_fallback_cultural_info(req.to_city), "cultural_info",
                       EmptyDict, TripTools[1].tool, t)

TripToolStart ==
    \E i \in DOMAIN TripTools :
        /\ req.agent = "trip" /\ pc = TripTools[i].tool
        /\ CallToolStart(TripTools[i].tool, TripKwargs(TripTools[i].tool))

TripToolReturn ==
    \E i \in DOMAIN TripTools :
        /\ req.agent = "trip" /\ pc = InFn(TripTools[i].tool)
        /\ \E r \in TripReturns(TripTools[i].tool), t \in RunClock :
            CallToolReturn(r, TripTools[i].key, TripAfter(i), t)

TripToolRaise ==
    \E i \in DOMAIN TripTools :
        /\ req.agent = "trip" /\ pc = InFn(TripTools[i].tool)
        /\ \E msg \in FaultMessages, t \in RunClock :
            CallToolRaise(msg, TripTools[i].key, TripAfter(i), t)

\* Step 7, up to the building of the prompt.
ItineraryStart ==
    /\ req.agent = "trip" /\ pc = "llm_day_itinerary"
    /\ CallToolStart("llm_day_itinerary",
                     [city |-> req.to_city,
                      dates |-> req.start_date \o " to " \o req.end_date,
                      prompt_type |-> "day_by_day_plan"])

\* Step 7, from the building of the prompt to the return of the response.
ItineraryFinish ==
    LET attractions_names == Names(Get(results, "attractions", List(<<>>)), "name")
        fallback == get_fallback_itinerary(req.to_city, req.from_city, req.start_date,
                                           req.end_date, req.travelers, req.budget,
                                           req.preferences, attractions_names)
        extra == [trace |-> TheTrace, meta |-> TripMeta] IN
    /\ req.agent = "trip" /\ pc = InFn("llm_day_itinerary")
    /\ \E t \in RunClock :
        IF Get(results, "forecast", List(<<>>)).t = "dict"
        THEN \E msg \in SliceErrors :
                TextStepRaise(msg, fallback, "itinerary", extra, "return", t)
        ELSE \E r \in Ask(TextOutcomes) :
                TextStepFinish(r, fallback, "itinerary", extra, "return", t)

NextTrip ==
    \/ CulturalStart
    \/ CulturalFinish
    \/ TripToolStart
    \/ TripToolRaise
    \/ TripToolReturn
    \/ ItineraryStart
    \/ ItineraryFinish

SpecTrip == InitTrip /\ [][NextTrip]_vars


(***************************************************************************)
(* run_market_agent (SpecMarket).                                          *)
(***************************************************************************)
MarketRequests ==
    [agent : {"market"}, country : {"Japan", " India ", "France"}, extra_query : {""}]

MarketEnvirons ==
    [GROQ_API_KEY : BOOLEAN, GOOGLE_API_KEY : BOOLEAN, HAS_GOOGLE : {TRUE},
     OPENWEATHER_API_KEY : {FALSE}, EXCHANGERATE_API_KEY : BOOLEAN]

\* Steps 1 to 4, in program order: the tool and the key its result is
\* stored under.
MarketTools ==
    <<[tool |-> "get_currency_info", key |-> "currency_info"],
      [tool |-> "get_fx_rates", key |-> "fx_rates"],
      [tool |-> "get_exchange_info", key |-> "exchanges"],
      [tool |-> "get_stock_indices", key |-> "indices"]>>

\* A variant of the step order: the FX step is made a second time after its
\* first attempt, whatever the attempt gave.
MarketAfter_retries_once(i) ==
    IF i = 2 /\ Len(calls) = 2 THEN MarketTools[2].tool
    ELSE IF i < Len(MarketTools) THEN MarketTools[i + 1].tool ELSE "llm_market_summary"

\* The step after the i-th of steps 1 to 4.
MarketAfter(i) ==
    IF i < Len(MarketTools) THEN MarketTools[i + 1].tool ELSE "llm_market_summary"

\* results["currency_info"].get("currency_code", "USD")
currency_code == Get(results["currency_info"], "currency_code", "USD")

\* The keyword arguments _call_tool is given for a tool.
MarketKwargs(tool) ==
    CASE tool = "get_currency_info" -> [country |-> req.country]
      [] tool = "get_fx_rates" -> [currency_code |-> currency_code]
      [] tool = "get_exchange_info" -> [country |-> req.country]
      [] tool = "get_stock_indices" -> [country |-> req.country]

\* What fn(**kwargs) may return, over the answers of the upstream services;
\* kwargs are the arguments recorded at the start of the call.
MarketReturns(tool, kwargs) ==
    CASE tool = "get_currency_info" ->
            {Fetched(get_currency_info(kwargs.country, http),
                     get_currency_info_requests(kwargs.country), http) :
                http \in CountryOutcomes(kwargs.country)}
      [] tool = "get_fx_rates" ->
            {Fetched(get_fx_rates(kwargs.currency_code, environ, http),
                     get_fx_rates_requests(kwargs.currency_code, environ), http) :
                http \in RateOutcomes}
      [] tool = "get_exchange_info" ->
            {Returned(get_exchange_info(kwargs.country))}
      [] tool = "get_stock_indices" ->
            {Returned(get_stock_indices(kwargs.country, <<q1, q2>>)) :
                q1 \in QuoteOutcomes, q2 \in QuoteOutcomes}

MarketMeta == [t |-> "dict", country |-> req.country, extra_query |-> req.extra_query]

InitMarket ==
    /\ InitTrace
    /\ environ \in MarketEnvirons
    /\ llm = NoLLM
    /\ req \in MarketRequests
    /\ pc = MarketTools[1].tool
    /\ idx = 0
    /\ results = EmptyDict
    /\ net = <<>>
    /\ InitNoSamples

MarketToolStart ==
    \E i \in DOMAIN MarketTools :
        /\ req.agent = "market" /\ pc = MarketTools[i].tool
        /\ CallToolStart(MarketTools[i].tool, MarketKwargs(MarketTools[i].tool))

MarketToolReturn ==
    \E i \in DOMAIN MarketTools :
        /\ req.agent = "market" /\ pc = InFn(MarketTools[i].tool)
        /\ \E r \in MarketReturns(MarketTools[i].tool, calls[Len(calls)].inputs),
              t \in RunClock :
            CallToolReturn(r, MarketTools[i].key, MarketAfter(i), t)

MarketToolRaise ==
    \E i \in DOMAIN MarketTools :
        /\ req.agent = "market" /\ pc = InFn(MarketTools[i].tool)
        /\ \E msg \in FaultMessages, t \in RunClock :
            CallToolRaise(msg, MarketTools[i].key, MarketAfter(i), t)

\* Step 5, up to the gateway call.
SummaryStart ==
    /\ req.agent = "market" /\ pc = "llm_market_summary"
    /\ CallToolStart("llm_market_summary",
                     [country |-> req.country, prompt_type |-> "market_overview"])

\* Step 5, from the gateway's answer to the return of the response.
SummaryFinish ==
    LET idx_names == Names(Get(results, "indices", List(<<>>)), "index_name")
        currency_name == Get(results["currency_info"], "currency_name", "N/A")
        fallback == get_fallback_market_summary(req.country, currency_name, idx_names)
        extra == [trace |-> TheTrace, meta |-> MarketMeta] IN
    /\ req.agent = "market" /\ pc = InFn("llm_market_summary")
    /\ \E r \in Ask(TextOutcomes), t \in RunClock :
        TextStepFinish(r, fallback, "market_summary", extra, "return", t)

NextMarket ==
    \/ MarketToolStart
    \/ MarketToolRaise
    \/ MarketToolReturn
    \/ SummaryStart
    \/ SummaryFinish

SpecMarket == InitMarket /\ [][NextMarket]_vars

(***************************************************************************)
(* A run of either orchestrator (SpecAgents).                              *)
(***************************************************************************)
InitAgents == InitTrip \/ InitMarket

NextAgents == NextTrip \/ NextMarket

SpecAgents == InitAgents /\ [][NextAgents]_vars

(***************************************************************************)
(* The sample generators called one after another, with other uses of the  *)
(* random module in between, in a server process that is started again     *)
(* now and then (SpecSample).                                              *)
(***************************************************************************)
\* The number of uses of the generator the history holds.
MaxLog == 3

FlightInputs ==
    [from_city : {"Delhi"}, to_city : {"Tokyo", "Atlantis"}, date : {"2025-06-01"},
     travelers : {2}]

HotelInputs ==
    [city : {"Tokyo", "Atlantis"}, checkin : {"2025-06-01"}, checkout : {"2025-06-05"},
     guests : {2}]

\* One entry of the history: the function, its arguments, the records in
\* generation order and the value returned.
Logged(fn, inputs, generated, result) ==
    [fn |-> fn, inputs |-> inputs, generated |-> generated, result |-> result]

InitSample ==
    /\ InitTrace
    /\ environ = NoEnviron
    /\ llm = NoLLM
    /\ InitNoRun
    /\ hashseed \in HashSeeds
    /\ rng \in RngStarts
    /\ log = <<>>
    /\ runs = NoRuns

\* search_flights(**a), from its first line to its return.
SearchFlights ==
    \E a \in FlightInputs :
        \E generated \in {generate_flights(flights_seed(hashseed, a.from_city,
                                                        a.to_city, a.date),
                                           a.from_city, a.to_city, a.date,
                                           a.travelers)},
           result \in {search_flights(hashseed, a.from_city, a.to_city, a.date,
                                      a.travelers)},
           state \in {search_flights_state(hashseed, a.from_city, a.to_city, a.date)} :
            /\ Len(log) < MaxLog
            /\ rng' = state
            /\ log' = Append(log, Logged("search_flights", a, generated, result))
            /\ UNCHANGED <<hashseed, runs>>
            /\ UNCHANGED <<traceVars, llmVars, runVars>>

\* search_hotels(**a), from its first line to its return.
SearchHotels ==
    \E a \in HotelInputs :
        \E generated \in {generate_hotels(hotels_seed(hashseed, a.city, a.checkin,
                                                      a.checkout),
                                          a.city, a.checkin, a.checkout, a.guests)},
           result \in {search_hotels(hashseed, a.city, a.checkin, a.checkout,
                                     a.guests)},
           state \in {search_hotels_state(hashseed, a.city, a.checkin, a.checkout,
                                          a.guests)} :
            /\ Len(log) < MaxLog
            /\ rng' = state
            /\ log' = Append(log, Logged("search_hotels", a, generated, result))
            /\ UNCHANGED <<hashseed, runs>>
            /\ UNCHANGED <<traceVars, llmVars, runVars>>

\* Any other draw from the shared generator (a library, another adapter).
RandomDraw ==
    /\ Len(log) < MaxLog
    /\ rng' = Rand(rng)
    /\ log' = Append(log, Logged("random", None, <<>>, Rand(rng)))
    /\ UNCHANGED <<hashseed, runs>>
    /\ UNCHANGED <<traceVars, llmVars, runVars>>

\* The server process ends and a new one starts: the interpreter draws a new
\* hash key and the random module seeds its generator from the system.
Restart ==
    /\ Len(log) < MaxLog
    /\ hashseed' \in HashSeeds
    /\ rng' \in RngStarts
    /\ log' = Append(log, Logged("restart", None, <<>>, None))
    /\ UNCHANGED runs
    /\ UNCHANGED <<traceVars, llmVars, runVars>>

NextSample ==
    \/ SearchFlights
    \/ SearchHotels
    \/ RandomDraw
    \/ Restart

SpecSample == InitSample /\ [][NextSample]_vars

(***************************************************************************)
(* Every operation of the recorder, reset and get_calls included           *)
(* (SpecRecorder).                                                         *)
(***************************************************************************)
\* trace.get_calls(): the list is returned, nothing is changed.
GetCalls ==
    /\ ret' = [NoRet EXCEPT !.op = "get_calls", !.output = List(get_calls(calls))]
    /\ UNCHANGED <<calls, now, started>>
    /\ UNCHANGED llmVars
    /\ UNCHANGED runVars
    /\ UNCHANGED genVars

\* MCPTrace.reset: self.calls = []
reset(cs) == <<>>

\* trace.reset()
Reset ==
    /\ calls' = reset(calls)
    /\ ret' = [NoRet EXCEPT !.op = "reset"]
    /\ UNCHANGED <<now, started>>
    /\ UNCHANGED llmVars
    /\ UNCHANGED runVars
    /\ UNCHANGED genVars

NextRecorder == StartCall \/ EndCall \/ GetCalls \/ Reset

SpecRecorder == Init /\ [][NextRecorder]_vars

(***************************************************************************)
(* Two orchestrator runs in one server process, their steps interleaved    *)
(* (SpecOverlap).  Streamlit runs the script of every browser session in a *)
(* thread of its own, so run_trip_agent may be under way twice at once.    *)
(* Of each run the steps are followed that touch what the runs could       *)
(* share: its trace and the two sample generators, which draw from the     *)
(* random module's one generator.  A thread may be suspended between any   *)
(* two calls into the random module; the draws of a generator's loop are   *)
(* taken together here.                                                    *)
(***************************************************************************)
Runs == {1, 2}

OverlapRequests ==
    [agent : {"trip"}, from_city : {"Delhi"}, to_city : {"Tokyo", "Atlantis"},
     start_date : {"2025-06-01"}, end_date : {"2025-06-05"}, travelers : {2}]

\* The sample-generator steps of run_trip_agent, in program order.
SampleTools ==
    <<[tool |-> "search_flights", key |-> "flights"],
      [tool |-> "search_hotels", key |-> "hotels"]>>

SampleAfter(i) == IF i < Len(SampleTools) THEN SampleTools[i + 1].tool ELSE "return"

\* The keyword arguments _call_tool is given for a tool, in the run of q.
SampleKwargs(q, tool) ==
    IF tool = "search_flights"
    THEN [from_city |-> q.from_city, to_city |-> q.to_city, date |-> q.start_date,
          travelers |-> q.travelers]
    ELSE [city |-> q.to_city, checkin |-> q.start_date, checkout |-> q.end_date,
          guests |-> q.travelers]

\* trace = MCPTrace(); results = {}
NewRun(q) ==
    [req |-> q, pc |-> SampleTools[1].tool, step |-> 1, calls |-> <<>>, idx |-> 0,
     num_options |-> 0, items |-> <<>>, results |-> EmptyDict]

InitOverlap ==
    /\ now = 0
    /\ ret = NoRet
    /\ started = <<>>
    /\ calls = <<>>
    /\ environ = NoEnviron
    /\ llm = NoLLM
    /\ InitNoRun
    /\ hashseed \in HashSeeds
    /\ rng = 0
    /\ log = <<>>
    /\ runs \in [Runs -> {NewRun(q) : q \in OverlapRequests}]

\* What a step of run r leaves alone.
OnlyRun(r, new) ==
    /\ runs' = [runs EXCEPT ![r] = new]
    /\ UNCHANGED <<hashseed, log>>
    /\ UNCHANGED <<traceVars, llmVars, runVars>>

\* _call_tool of run r: the run's own recorder is told of the call.
RunToolStart(r) ==
    LET run == runs[r]
        tool == SampleTools[run.step].tool
        s == start_call(run.calls, tool, SampleKwargs(run.req, tool), now) IN
    /\ run.pc = tool
    /\ OnlyRun(r, [run EXCEPT !.calls = s.calls, !.idx = s.handle, !.pc = "seed",
                              !.items = <<>>])
    /\ UNCHANGED rng

\* The first line of the generator: random.seed(hash(...) % (2**31)).
RunSeed(r) ==
    LET run == runs[r]
        q == run.req IN
    /\ run.pc = "seed"
    /\ rng' = IF SampleTools[run.step].tool = "search_flights"
              THEN flights_seed(hashseed, q.from_city, q.to_city, q.start_date)
              ELSE hotels_seed(hashseed, q.to_city, q.start_date, q.end_date)
    /\ OnlyRun(r, [run EXCEPT !.pc = "count"])

\* num_options = random.randint(3, 5), or (4, 6) for hotels.
RunCount(r) ==
    LET run == runs[r]
        flights == SampleTools[run.step].tool = "search_flights" IN
    /\ run.pc = "count"
    /\ rng' = Rand(rng)
    /\ OnlyRun(r, [run EXCEPT !.pc = "loop",
                              !.num_options = IF flights THEN RandInt(Rand(rng), 3, 5)
                                              ELSE RandInt(Rand(rng), 4, 6)])

\* The loop: num_options records are drawn and appended.
RunLoop(r) ==
    LET run == runs[r]
        q == run.req IN
    /\ run.pc = "loop"
    /\ IF SampleTools[run.step].tool = "search_flights"
       THEN /\ rng' = Adv(rng, 9 * run.num_options)
            /\ OnlyRun(r, [run EXCEPT !.pc = "sort", !.items =
                    [i \in 1 .. run.num_options |->
                        Flight(Adv(rng, 9 * (i - 1)), q.from_city, q.to_city,
                               q.start_date, q.travelers)]])
       ELSE \E rounds \in {Hotels(rng, run.num_options, q.to_city, q.start_date,
                                  q.end_date, q.travelers)} :
            /\ rng' = rounds[Len(rounds)].state
            /\ OnlyRun(r, [run EXCEPT !.pc = "sort", !.items =
                    [i \in DOMAIN rounds |-> rounds[i].hotel]])

\* The loop is over: the list is sorted and returned, _call_tool records the
\* result in the run's own trace and the orchestrator stores it.
RunToolReturn(r) ==
    LET run == runs[r]
        flights == SampleTools[run.step].tool = "search_flights"
        result == List(IF flights THEN sort_flights(run.items)
                       ELSE sort_hotels(run.items)) IN
    /\ run.pc = "sort"
    /\ OnlyRun(r, [run EXCEPT
            !.calls = end_call(run.calls, run.idx, result, None, now).calls,
            !.results = Put(@, SampleTools[run.step].key, result),
            !.pc = SampleAfter(run.step),
            !.step = IF run.step < Len(SampleTools) THEN run.step + 1 ELSE run.step])
    /\ UNCHANGED rng

NextOverlap ==
    \E r \in Runs :
        \/ RunToolStart(r)
        \/ RunSeed(r)
        \/ RunCount(r)
        \/ RunLoop(r)
        \/ RunToolReturn(r)

SpecOverlap == InitOverlap /\ [][NextOverlap]_vars

(***************************************************************************)
(* The recorder's contract (Spec).                                         *)
(***************************************************************************)
\* C1: start_call(tool, inputs) on a trace of length n appends exactly one
\* pending ToolCall with that tool name and those inputs, no output and no
\* error, returns n, makes the length n+1, leaves the n entries there
\* unchanged and does not fail.
C1_StartCallAppends ==
    [][started' # started =>
        /\ ret'.op = "start_call" /\ ~ret'.raised
        /\ ret'.handle = Len(calls)
        /\ Len(calls') = Len(calls) + 1
        /\ \A i \in 1 .. Len(calls) : calls'[i] = calls[i]
        /\ LET c == calls'[Len(calls')] IN
            /\ c.tool_name = ret'.tool_name
            /\ c.inputs = ret'.inputs
            /\ c.status = "pending"
            /\ c.output = None
            /\ c.error = None]_vars

\* A start_call on a trace that holds a finalized call.
C1_Witness ==
    /\ ret.op = "start_call"
    /\ Len(calls) = 2
    /\ calls[1].status = "error"

\* C2: after end_call(h, output, error) on an existing call, the status is
\* "error" iff error is neither None nor empty and "success" otherwise; the
\* stored error and output are the arguments.
C2_EndCallStatus ==
    (ret.op = "end_call" /\ ret.index \in 0 .. (Len(calls) - 1)) =>
        LET c == calls[ret.index + 1] IN
        /\ ~ret.raised
        /\ c.status = (IF ret.error # None /\ ret.error # Str("")
                       THEN "error" ELSE "success")
        /\ c.error = ret.error
        /\ c.output = ret.output

\* An end_call whose error argument is the empty string.
C2_Witness ==
    /\ ret.op = "end_call" /\ ret.index = 1 /\ Len(calls) = 2
    /\ ret.error = Str("")
    /\ calls[2].status = "success"
    /\ calls[1].status = "error"

\* C3: end_call(h, ...) with h not the index of an existing call (h < 0 or
\* h >= the number of calls) fails with an out-of-range error and leaves
\* every entry unchanged.
C3_OutOfRangeFails ==
    [][(ret'.op = "end_call" /\ ret'.index \notin 0 .. (Len(calls) - 1)) =>
        (ret'.raised /\ calls' = calls)]_vars

\* C4: the entry at handle h, read through get_calls(), has the inputs and
\* the tool name passed to the start_call that returned h, whatever
\* start_call and end_call operations followed.
C4_InputsRoundTrip ==
    \A k \in 1 .. Len(started) :
        LET h == started[k].handle IN
        /\ h \in 0 .. (Len(get_calls(calls)) - 1)
        /\ get_calls(calls)[h + 1].inputs = started[k].inputs
        /\ get_calls(calls)[h + 1].tool_name = started[k].tool_name

\* Two calls started with different inputs, both finalized since.
C4_Witness ==
    /\ Len(started) = 2
    /\ started[1].inputs # started[2].inputs
    /\ calls[1].status = "success" /\ calls[2].status = "error"
    /\ calls[1].output # None

\* C5: on a fresh trace, start_call then end_call with no error leaves one
\* call, with status "success" and a duration >= 0 that is the clock at
\* end_call minus the clock captured by start_call.
C5_StartThenFinish ==
    (/\ Len(started) = 1
     /\ ret.op = "end_call" /\ ret.index = started[1].handle
     /\ ~Truthy(ret.error)) =>
        /\ Len(get_calls(calls)) = 1
        /\ calls[1].status = "success"
        /\ calls[1].duration_ms >= 0
        /\ calls[1].duration_ms = now - started[1].time

\* The one call finished, without error, after the clock moved on.
C5_Witness ==
    /\ Len(started) = 1
    /\ ret.op = "end_call" /\ ret.index = 0 /\ ret.error = None
    /\ calls[1].status = "success"
    /\ calls[1].duration_ms > 0

\* C6: the k-th start_call (from 0) returned handle k, get_calls()[k] is the
\* call it created, and end_call(k, ...) modifies that call and no other.
C6_HandlesPermanent ==
    /\ [](/\ Len(get_calls(calls)) = Len(started)
          /\ \A k \in 1 .. Len(started) :
                /\ started[k].handle = k - 1
                /\ get_calls(calls)[k].tool_name = started[k].tool_name
                /\ get_calls(calls)[k].inputs = started[k].inputs
                /\ get_calls(calls)[k].timestamp = started[k].time)
    /\ [][(ret'.op = "end_call" /\ ret'.index \in 0 .. (Len(calls) - 1)) =>
            \A j \in 1 .. Len(calls) :
                j # ret'.index + 1 => calls'[j] = calls[j]]_vars

\* The first call finalized after the second one was.
C6_Witness ==
    /\ Len(started) = 2
    /\ ret.op = "end_call" /\ ret.index = 0
    /\ calls[1].status = "success"
    /\ calls[2].status = "error"
    /\ calls[1].tool_name # calls[2].tool_name

(***************************************************************************)
(* The gateway's contract (SpecLLM).                                       *)
(***************************************************************************)
\* A backend serviced the request: its credential is set (and, for Gemini,
\* the client library is there), the request did not raise and the
\* response holds a non-empty text.
GroqServiced ==
    /\ environ.GROQ_API_KEY
    /\ ~llm.groq.raises
    /\ llm.groq.content # None /\ llm.groq.content # Str("")

GeminiServiced ==
    /\ environ.HAS_GOOGLE /\ environ.GOOGLE_API_KEY
    /\ ~llm.gemini.raises
    /\ llm.gemini.content # None /\ llm.gemini.content # Str("")

\* C7: ask_gemini never raises; it returns the sentinel iff both backends
\* failed to service the request, and otherwise the primary's text when
\* the primary succeeded, else the secondary's.
C7_SentinelIffBothFailed ==
    llm.op = "ask_gemini" =>
        /\ ~llm.raised
        /\ (llm.result = LLM_UNAVAILABLE) <=> (~GroqServiced /\ ~GeminiServiced)
        /\ GroqServiced => llm.result = llm.groq.content
        /\ (~GroqServiced /\ GeminiServiced) => llm.result = llm.gemini.content

\* C8: the primary is requested before the secondary, the secondary only if
\* the primary failed, each at most once; a backend without its credential
\* is not requested and counts as failed.
C8_OneAttemptEachInOrder ==
    llm.op = "ask_gemini" =>
        /\ llm.attempts \in {<<>>, <<"groq">>, <<"gemini">>, <<"groq", "gemini">>}
        /\ ("groq" \in Range(llm.attempts)) <=> environ.GROQ_API_KEY
        /\ ("gemini" \in Range(llm.attempts)) <=>
                (~GroqServiced /\ environ.GOOGLE_API_KEY /\ environ.HAS_GOOGLE)

\* Groq without its credential, Gemini requested and answering.
C8_Witness ==
    /\ llm.op = "ask_gemini"
    /\ ~environ.GROQ_API_KEY
    /\ llm.attempts = <<"gemini">>
    /\ llm.result = Str("Generated text")

(***************************************************************************)
(* The orchestrators' contract (SpecTrip, SpecMarket).                     *)
(***************************************************************************)
\* C9: a run of run_trip_agent that returns leaves a trace of exactly 7
\* calls whose tool names are, in order, llm_cultural_paragraph,
\* get_current_weather, get_weather_forecast, search_flights, search_hotels,
\* get_attractions, llm_day_itinerary, whichever gateway and adapter calls
\* fail, raise or return fallback data.
C9_TripTraceOrder ==
    (req.agent = "trip" /\ pc = "return") =>
        [i \in DOMAIN calls |-> calls[i].tool_name]
            = <<"llm_cultural_paragraph", "get_current_weather", "get_weather_forecast",
                "search_flights", "search_hotels", "get_attractions",
                "llm_day_itinerary">>

\* A returned trip run in which the gateway was unavailable in step 1, the
\* weather adapter returned sample data, the forecast adapter raised and the
\* itinerary step failed on the error marker.
C9_Witness ==
    /\ req.agent = "trip" /\ pc = "return"
    /\ calls[1].output = Str("Used pre-written fallback (LLM unavailable)")
    /\ calls[2].status = "success" /\ calls[2].error = None /\ calls[2].output.sample
    /\ calls[3].status = "error"
    /\ results["forecast"] = ErrorMarker("boom")
    /\ calls[7].status = "error"

\* C10: a run of run_market_agent that returns leaves a trace of exactly 5
\* calls whose tool names are, in order, get_currency_info, get_fx_rates,
\* get_exchange_info, get_stock_indices, llm_market_summary, whichever
\* adapter or gateway calls fail or raise: no step is skipped or repeated
\* because of an earlier step's result.
C10_MarketTraceOrder ==
    (req.agent = "market" /\ pc = "return") =>
        [i \in DOMAIN calls |-> calls[i].tool_name]
            = <<"get_currency_info", "get_fx_rates", "get_exchange_info",
                "get_stock_indices", "llm_market_summary">>

\* A returned market run in which the currency step raised, the FX step ran
\* on the default code, the index step raised and the gateway was unavailable.
C10_Witness ==
    /\ req.agent = "market" /\ pc = "return"
    /\ calls[1].status = "error"
    /\ calls[2].inputs.currency_code = "USD"
    /\ calls[4].status = "error"
    /\ llm.result = LLM_UNAVAILABLE
    /\ calls[5].status = "success"

\* C11: in an orchestrator run start and finish strictly alternate: an
\* entry is finalized once, and before the next one is started, so at most
\* one entry is pending, it is the last one and the run is inside that step;
\* when the response is returned no entry is pending.
C11_StartFinishAlternate ==
    /\ [](/\ \A i \in DOMAIN calls : calls[i].status = "pending" => i = Len(calls)
          /\ (calls # <<>> /\ calls[Len(calls)].status = "pending")
                => pc = InFn(calls[Len(calls)].tool_name)
          /\ pc = "return" => \A i \in DOMAIN calls : calls[i].status # "pending")
    /\ [][/\ \A i \in DOMAIN calls :
                calls[i].status # "pending" => (i \in DOMAIN calls' /\ calls'[i] = calls[i])
          /\ Len(calls') > Len(calls) =>
                (Len(calls') = Len(calls) + 1
                 /\ \A i \in DOMAIN calls : calls[i].status # "pending")
          /\ calls' # calls =>
                \/ Len(calls') = Len(calls) + 1
                \/ /\ Len(calls') = Len(calls)
                   /\ calls[Len(calls)].status = "pending"
                   /\ calls'[Len(calls)].status # "pending"]_vars

\* A returned trip run in which an adapter raised, an adapter returned and
\* the itinerary step failed: seven entries, each finalized.
C11_Witness ==
    /\ req.agent = "trip" /\ pc = "return" /\ Len(calls) = 7
    /\ calls[3].status = "error" /\ calls[4].status = "success"
    /\ calls[7].status = "error"

\* C12: a response returned by run_trip_agent has the keys cultural_info,
\* current_weather, forecast, flights, hotels, attractions, itinerary, trace
\* and meta, one returned by run_market_agent the keys currency_info,
\* fx_rates, exchanges, indices, market_summary, trace and meta, and no value
\* is None, whichever adapters and backends fail.
C12_AllSectionsPresent ==
    pc = "return" =>
        /\ req.agent = "trip" =>
            {"cultural_info", "current_weather", "forecast", "flights", "hotels",
             "attractions", "itinerary", "trace", "meta"} \subseteq DOMAIN results
        /\ req.agent = "market" =>
            {"currency_info", "fx_rates", "exchanges", "indices", "market_summary",
             "trace", "meta"} \subseteq DOMAIN results
        /\ \A k \in DOMAIN results : results[k] # None

\* A returned trip run in which every backend was unavailable, the forecast
\* adapter raised and the itinerary step failed on its error marker.
C12_Witness ==
    /\ req.agent = "trip" /\ pc = "return"
    /\ ~environ.GROQ_API_KEY /\ ~environ.GOOGLE_API_KEY
    /\ results["forecast"] = ErrorMarker("")
    /\ calls[7].error = Str("slice(None, 3, None)")
    /\ results["itinerary"] # None

\* C13: for an adapter step run through _call_tool, if the invocation raised
\* (end_call was given str(e) as error) the entry has status "error", its
\* error is the message and the section is the error marker of that message;
\* if it returned, the entry has status "success" and its output is the
\* result, which the section holds.
C13_CallToolRecords ==
    \A i \in DOMAIN calls : \A step \in Range(TripTools) \cup Range(MarketTools) :
        (calls[i].tool_name = step.tool /\ step.key \in DOMAIN results) =>
            IF calls[i].error # None
            THEN /\ calls[i].status = "error"
                 /\ results[step.key] = ErrorMarker(calls[i].error.s)
            ELSE /\ calls[i].status = "success"
                 /\ calls[i].output = results[step.key]

\* C14: in a returned run in which exactly one adapter step raised, every
\* step ran, and every entry other than that step's has the status it has
\* without the failure, "success": no other entry has status "error".
C14_FailureContained ==
    pc = "return" =>
        LET adapters == {step.tool : step \in Range(TripTools) \cup Range(MarketTools)}
            raised == {i \in DOMAIN calls :
                          calls[i].tool_name \in adapters /\ calls[i].error # None} IN
        Cardinality(raised) = 1 =>
            /\ Len(calls) = (IF req.agent = "trip" THEN 7 ELSE 5)
            /\ \A i \in DOMAIN calls \ raised : calls[i].status = "success"

\* C15: when the gateway returns the sentinel in a text step (cultural
\* paragraph, itinerary, market summary), the step's entry has status
\* "success" and the section holds the library entry of the lower-cased,
\* trimmed destination or country if there is one, else the generic
\* templated text; the section is never the sentinel.
C15_SentinelGivesFallback ==
    LET unavailable == llm.op = "ask_gemini" /\ llm.result = LLM_UNAVAILABLE
        Entry(library, name, key, generic) ==
            IF key \in library THEN Str(name \o "[" \o key \o "]") ELSE generic IN
    /\ (req.agent = "trip" /\ pc = "get_current_weather" /\ unavailable) =>
            /\ calls[1].status = "success"
            /\ results["cultural_info"] # LLM_UNAVAILABLE
            /\ results["cultural_info"]
                 = Entry(CULTURAL_INFO, "CULTURAL_INFO", LowerStrip(req.to_city),
                         get_fallback_cultural_info(req.to_city))
    /\ (req.agent = "trip" /\ pc = "return" /\ unavailable) =>
            /\ calls[7].status = "success"
            /\ results["itinerary"] # LLM_UNAVAILABLE
            /\ results["itinerary"]
                 = Entry(ITINERARIES, "ITINERARIES", LowerStrip(req.to_city),
                         get_fallback_itinerary(req.to_city, req.from_city,
                             req.start_date, req.end_date, req.travelers, req.budget,
                             req.preferences, Names(results["attractions"], "name")))
    /\ (req.agent = "market" /\ pc = "return" /\ unavailable) =>
            /\ calls[5].status = "success"
            /\ results["market_summary"] # LLM_UNAVAILABLE
            /\ results["market_summary"]
                 = Entry(MARKET_SUMMARIES, "MARKET_SUMMARIES", LowerStrip(req.country),
                         get_fallback_market_summary(req.country,
                             Get(results["currency_info"], "currency_name", "N/A"),
                             Names(results["indices"], "index_name")))

\* A returned trip run to " Paris " in which the gateway returned the
\* sentinel in both text steps: the cultural paragraph is the library's, the
\* itinerary the generic one.
C15_Witness ==
    /\ req.agent = "trip" /\ pc = "return" /\ req.to_city = " Paris "
    /\ llm.op = "ask_gemini" /\ llm.result = LLM_UNAVAILABLE
    /\ calls[1].output = Str("Used pre-written fallback (LLM unavailable)")
    /\ results["cultural_info"] = Str("CULTURAL_INFO[paris]")
    /\ results["itinerary"] # Str("ITINERARIES[paris]")
    /\ calls[7].status = "success"

(***************************************************************************)
(* The adapters' contract, on the results the orchestrators' steps record. *)
(***************************************************************************)
\* C16: every record of the result an adapter returns carries a boolean
\* sample flag, and the flag is true on every record when the credential the
\* adapter needs (weather, FX) is absent.
C16_SampleFlagPresent ==
    \A i \in DOMAIN calls :
        LET out == calls[i].output
            adapters == {step.tool : step \in Range(TripTools) \cup Range(MarketTools)}
            needs_weather == calls[i].tool_name \in {"get_current_weather",
                                                     "get_weather_forecast"}
            needs_fx == calls[i].tool_name = "get_fx_rates" IN
        (calls[i].tool_name \in adapters /\ out # None) =>
            \A rec \in (IF out.t = "list" THEN Range(out.items) ELSE {out}) :
                /\ "sample" \in DOMAIN rec
                /\ rec.sample \in BOOLEAN
                /\ (needs_weather /\ ~environ.OPENWEATHER_API_KEY) => rec.sample
                /\ (needs_fx /\ ~environ.EXCHANGERATE_API_KEY) => rec.sample

\* C17: a record returned by an adapter whose sample flag is true carries a
\* note that is not empty.
C17_SampleHasNote ==
    \A i \in DOMAIN calls :
        LET out == calls[i].output
            adapters == {step.tool : step \in Range(TripTools) \cup Range(MarketTools)} IN
        (calls[i].tool_name \in adapters /\ out # None) =>
            \A rec \in (IF out.t = "list" THEN Range(out.items) ELSE {out}) :
                ("sample" \in DOMAIN rec /\ rec.sample = TRUE) =>
                    ("note" \in DOMAIN rec /\ rec.note # "")

\* C18: no adapter returns a record without a required number: a
\* get_fx_rates result has a number for each of USD, INR, GBP and EUR, every
\* get_stock_indices record has numbers value, change and change_pct, a
\* get_current_weather result has a number temp_c.
C18_NumbersPresent ==
    \A i \in DOMAIN calls :
        LET out == calls[i].output
            Number(rec, field) == field \in DOMAIN rec /\ rec[field] \in Int IN
        out # None =>
            /\ calls[i].tool_name = "get_fx_rates" =>
                    /\ "rates" \in DOMAIN out
                    /\ \A tc \in {"USD", "INR", "GBP", "EUR"} : Number(out.rates, tc)
            /\ calls[i].tool_name = "get_stock_indices" =>
                    \A rec \in Range(out.items) :
                        Number(rec, "value") /\ Number(rec, "change")
                        /\ Number(rec, "change_pct")
            /\ calls[i].tool_name = "get_current_weather" => Number(out, "temp_c")

\* C19: no adapter raises to its caller: whatever the upstream services do
\* (exception, timeout, error status, empty payload, missing credential) the
\* adapter returns a result, so in a run in which no exception comes from
\* elsewhere (no section is an error marker) no entry has status "error" and
\* every adapter entry finalized holds a result.
C19_UpstreamFailuresAbsorbed ==
    LET adapters == {step.tool : step \in Range(TripTools) \cup Range(MarketTools)}
        raised == {k \in DOMAIN results :
                      results[k].t = "dict" /\ DOMAIN results[k] = {"t", "error"}} IN
    raised = {} =>
        \A i \in DOMAIN calls :
            /\ calls[i].status # "error"
            /\ (calls[i].tool_name \in adapters /\ calls[i].status = "success") =>
                    calls[i].output.t \in {"dict", "list"}

\* A returned trip run in which the weather service failed for both weather
\* adapters, a backend was requested and the gateway was unavailable, and the
\* attractions fell back to the generic set: no entry is an error.
C19_Witness ==
    /\ req.agent = "trip" /\ pc = "return" /\ req.to_city = "Atlantis"
    /\ results["current_weather"] = calls[2].output
    /\ Get(calls[2].output, "note", "") = "SAMPLE DATA - API error: timeout"
    /\ results["forecast"] = calls[3].output
    /\ Get(calls[3].output.items[1], "note", "") = "SAMPLE DATA - API error: timeout"
    /\ calls[6].output = List(GenericAttractions("Atlantis"))
    /\ llm.result = LLM_UNAVAILABLE /\ llm.attempts # <<>>
    /\ \A i \in DOMAIN calls : calls[i].status = "success" /\ calls[i].error = None

\* C20: with the weather credential absent get_current_weather and
\* get_weather_forecast return the sample data and make no network request;
\* with the FX credential absent get_fx_rates returns the fallback table's
\* rates for the code, or all-zero rates for a code not in the table, and
\* makes no network request.
C20_NoCredentialNoRequest ==
    LET last == calls[Len(calls)]
        out == last.output
        returned == calls # <<>> /\ last.status # "pending" /\ last.error = None IN
    /\ (returned /\ last.tool_name = "get_current_weather"
            /\ ~environ.OPENWEATHER_API_KEY) =>
            /\ net = <<>>
            /\ out.sample
            /\ \A f \in DOMAIN SAMPLE_CURRENT : out[f] = SAMPLE_CURRENT[f]
    /\ (returned /\ last.tool_name = "get_weather_forecast"
            /\ ~environ.OPENWEATHER_API_KEY) =>
            /\ net = <<>>
            /\ Len(out.items) = Len(SAMPLE_FORECAST)
            /\ \A d \in DOMAIN SAMPLE_FORECAST :
                /\ out.items[d].sample
                /\ \A f \in DOMAIN SAMPLE_FORECAST[d] :
                        out.items[d][f] = SAMPLE_FORECAST[d][f]
    /\ (returned /\ last.tool_name = "get_fx_rates"
            /\ ~environ.EXCHANGERATE_API_KEY) =>
            /\ net = <<>>
            /\ out.sample
            /\ out.rates = (IF last.inputs.currency_code \in FALLBACK_RATE_KEYS
                            THEN FALLBACK_RATES(last.inputs.currency_code)
                            ELSE ZeroRates)

\* A market run for France without the FX credential: the currency step made
\* its request and resolved EUR, the FX step made none and returned zero rates.
C20_Witness ==
    /\ req.agent = "market" /\ req.country = "France"
    /\ ~environ.EXCHANGERATE_API_KEY
    /\ pc = "get_exchange_info"
    /\ calls[1].output # None /\ calls[1].output.sample = FALSE
    /\ calls[2].inputs.currency_code = "EUR"
    /\ calls[2].status = "success" /\ calls[2].error = None
    /\ calls[2].output.rates = ZeroRates
    /\ net = <<>>

(***************************************************************************)
(* The sample generators (SpecSample).                                     *)
(***************************************************************************)
\* The entries of the history that are calls of a sample generator.
SampleCalls == {i \in DOMAIN log : log[i].fn \in {"search_flights", "search_hotels"}}

\* Whether the entries i and j were made by the same server process.
SameProcess(i, j) ==
    \A k \in DOMAIN log : (i < k /\ k < j) \/ (j < k /\ k < i) => log[k].fn # "restart"

\* C21: any two calls of search_flights (of search_hotels) with identical
\* inputs return identical ordered lists of records, whatever other adapter
\* calls or random draws happen between the two calls.
C21_SampleCallsDeterministic ==
    \A i \in SampleCalls, j \in SampleCalls :
        log[i].fn = log[j].fn /\ log[i].inputs = log[j].inputs
            => log[i].result = log[j].result

\* What does hold: two calls with identical inputs made by one process
\* return identical lists, whatever is drawn or generated between them.
C21_DeterministicWithinProcess ==
    \A i \in SampleCalls, j \in SampleCalls :
        log[i].fn = log[j].fn /\ log[i].inputs = log[j].inputs /\ SameProcess(i, j)
            => log[i].result = log[j].result

\* Two calls with identical inputs in one process, a draw between them.
C21_WithinProcessCase ==
    /\ Len(log) = 3
    /\ log[1].fn = "search_flights" /\ log[3] = log[1]
    /\ log[2].fn \in {"random", "search_hotels"}

\* The price a sample generator sorts its records by.
PriceOf(e, x) == IF e.fn = "search_flights" THEN x.price_usd ELSE x.price_per_night_usd

\* How often the record x occurs in the sequence xs.
Count(xs, x) == Cardinality({i \in DOMAIN xs : xs[i] = x})

\* C22: the list search_flights returns is non-decreasing in price_usd and
\* the list search_hotels returns in price_per_night_usd; records of equal
\* price keep the order they were generated in; the list is a permutation of
\* the generated records, 3 to 5 flights or 4 to 6 hotels, each with the
\* sample flag true.
C22_SortedStablePermutation ==
    \A n \in SampleCalls :
        LET e == log[n]
            out == e.result.items
            made == e.generated IN
        /\ e.result.t = "list"
        /\ \A p \in DOMAIN out, q \in DOMAIN out :
            p < q => PriceOf(e, out[p]) <= PriceOf(e, out[q])
        /\ \A p \in DOMAIN out, q \in DOMAIN out :
            p < q /\ PriceOf(e, out[p]) = PriceOf(e, out[q]) /\ out[p] # out[q]
                => \E i \in DOMAIN made, j \in DOMAIN made :
                      i < j /\ made[i] = out[p] /\ made[j] = out[q]
        /\ Len(out) = Len(made)
        /\ \A x \in Range(made) \cup Range(out) : Count(out, x) = Count(made, x)
        /\ IF e.fn = "search_flights" THEN Len(out) \in 3 .. 5 ELSE Len(out) \in 4 .. 6
        /\ \A p \in DOMAIN out : out[p].sample = TRUE

\* A call whose records were generated out of price order, two of them at
\* the same price with a cheaper one generated between them.
C22_Witness ==
    \E n \in SampleCalls :
        LET e == log[n]
            made == e.generated IN
        /\ e.result.items # made
        /\ \E i \in DOMAIN made, j \in DOMAIN made, k \in DOMAIN made :
            /\ i < k /\ k < j
            /\ PriceOf(e, made[i]) = PriceOf(e, made[j])
            /\ PriceOf(e, made[k]) < PriceOf(e, made[i])

(***************************************************************************)
(* End-to-end scenarios (SpecTrip, SpecMarket).                            *)
(***************************************************************************)
\* The sections of the response that are the error marker of a raised step.
Raised == {k \in DOMAIN results : results[k].t = "dict" /\ DOMAIN results[k] = {"t", "error"}}

\* Scenario A: a returned run of run_trip_agent to "Tokyo" with no weather
\* and no LLM credential configured, in which no exception came from outside
\* the adapters.
ScenarioA ==
    /\ req.agent = "trip" /\ req.to_city = "Tokyo" /\ pc = "return"
    /\ ~environ.OPENWEATHER_API_KEY
    /\ ~environ.GROQ_API_KEY /\ ~environ.GOOGLE_API_KEY
    /\ Raised = {}

\* C23: in scenario A the response has the built-in Tokyo cultural
\* paragraph, the sample current weather with temp_c 22, the curated Tokyo
\* attractions and the built-in Tokyo itinerary, and the trace has exactly
\* seven calls, none with status "error".
C23_ScenarioA ==
    ScenarioA =>
        /\ results["cultural_info"] = Str("CULTURAL_INFO[tokyo]")
        /\ results["current_weather"].sample = TRUE
        /\ results["current_weather"].temp_c = 22
        /\ results["attractions"] = List(CURATED_ATTRACTIONS("tokyo"))
        /\ results["itinerary"] = Str("ITINERARIES[tokyo]")
        /\ Len(calls) = 7
        /\ \A i \in DOMAIN calls : calls[i].status # "error"

\* Scenario A has run to its return: seven calls recorded, the last one the
\* itinerary step, finalized without the gateway having a backend to ask.
C23_Witness ==
    /\ ScenarioA
    /\ Len(calls) = 7 /\ calls[7].tool_name = "llm_day_itinerary"
    /\ calls[7].status = "success"
    /\ llm.op = "ask_gemini" /\ llm.attempts = <<>> /\ llm.result = LLM_UNAVAILABLE

\* Scenario B: a run of run_market_agent for "France", a country in none of
\* the built-in tables, in which no exception came from outside the adapters.
ScenarioB == req.agent = "market" /\ req.country = "France" /\ Raised = {}

\* No request of the step just finished was answered (a step that made no
\* request for want of a credential included).
UpstreamDown == \A i \in DOMAIN net : ~net[i].ok

\* C24: in scenario B with every upstream service and the gateway
\* unavailable, currency_info has sample true and currency_code "N/A",
\* fx_rates has sample true and rate 0 for each of USD, INR, GBP, EUR,
\* exchanges is a single generic placeholder with sample true, market_summary
\* is the generic templated text naming the country, and the trace has five
\* calls, none with status "error".
C24_ScenarioB ==
    /\ (ScenarioB /\ pc = "get_fx_rates" /\ UpstreamDown) =>
            /\ results["currency_info"].sample = TRUE
            /\ results["currency_info"].currency_code = "N/A"
    /\ (ScenarioB /\ pc = "get_exchange_info" /\ UpstreamDown
            /\ results["currency_info"].currency_code = "N/A") =>
            /\ results["fx_rates"].sample = TRUE
            /\ \A tc \in {"USD", "INR", "GBP", "EUR"} : results["fx_rates"].rates[tc] = 0
    /\ (ScenarioB /\ pc = "get_stock_indices") =>
            /\ Len(results["exchanges"].items) = 1
            /\ results["exchanges"].items[1].name = "France Stock Exchange"
            /\ results["exchanges"].items[1].sample = TRUE
    /\ (ScenarioB /\ pc = "return" /\ llm.result = LLM_UNAVAILABLE
            /\ results["currency_info"].currency_code = "N/A") =>
            /\ results["market_summary"]
                 = Str("France's financial market features the Unknown as its "
                       \o "official currency. The country's stock exchanges and "
                       \o "major indices () play an important role.")
            /\ Len(calls) = 5
            /\ \A i \in DOMAIN calls : calls[i].status # "error"

\* Scenario B has run to its return with the country service failing, no FX
\* credential and no backend of the gateway configured.
C24_Witness ==
    /\ ScenarioB /\ pc = "return"
    /\ ~environ.EXCHANGERATE_API_KEY
    /\ llm.op = "ask_gemini" /\ llm.result = LLM_UNAVAILABLE
    /\ Len(calls) = 5
    /\ Get(results["currency_info"], "note", "") = "Country not found"
    /\ Get(results["fx_rates"], "rates", None) = ZeroRates
    /\ results["exchanges"].t = "list"
    /\ Len(results["exchanges"].items) = 1
    /\ Get(results["exchanges"].items[1], "sample", FALSE) = TRUE

(***************************************************************************)
(* The currency code handed from step 1 to step 2 (SpecMarket).            *)
(***************************************************************************)
\* C25: the currency_code recorded as input of the get_fx_rates step is the
\* code step 1 resolved when it resolved one, and "USD" when it did not:
\* when step 1 raised, or returned the not-found result of an unknown country.
C25_FxCodeFromStepOne ==
    (req.agent = "market" /\ Len(calls) >= 2) =>
        LET info == results["currency_info"]
            resolved == "currency_info" \notin Raised /\ info.currency_code # "N/A" IN
        calls[2].inputs.currency_code
            = IF resolved THEN info.currency_code ELSE "USD"

\* What does hold: the input is the currency_code of step 1's result, the
\* "N/A" of the not-found result included, and "USD" when step 1 raised.
C25_FxCodeAsStored ==
    (req.agent = "market" /\ Len(calls) >= 2) =>
        calls[2].inputs.currency_code
            = IF "currency_info" \in Raised THEN "USD"
              ELSE results["currency_info"].currency_code

\* Step 2 started after step 1 raised.
C25_RaisedCase ==
    /\ req.agent = "market" /\ Len(calls) >= 2
    /\ "currency_info" \in Raised /\ calls[2].inputs.currency_code = "USD"

(***************************************************************************)
(* Finalizing twice (Spec).                                                *)
(***************************************************************************)
\* C26: a second end_call on a handle whose call is already finalized does
\* not fail; it replaces the call's output, status, error and duration with
\* the values of the second call, and no other entry changes.
C26_DoubleFinishOverwrites ==
    [][\A p \in DOMAIN calls :
        (ret'.op = "end_call" /\ PyIndex(Len(calls), ret'.index) = p
            /\ calls[p].status # "pending") =>
            /\ ~ret'.raised
            /\ Len(calls') = Len(calls)
            /\ calls'[p].output = ret'.output
            /\ calls'[p].error = ret'.error
            /\ calls'[p].status = (IF ret'.error \in {None, Str("")}
                                   THEN "success" ELSE "error")
            /\ calls'[p].duration_ms = Round1(now' - calls[p].timestamp)
            /\ calls'[p].tool_name = calls[p].tool_name
            /\ calls'[p].inputs = calls[p].inputs
            /\ calls'[p].timestamp = calls[p].timestamp
            /\ \A q \in DOMAIN calls : q # p => calls'[q] = calls[q]]_vars

\* A call finalized as "error" has been finalized again, later, with an
\* output and no error: it reads "success" with the new output and duration.
C26_Witness ==
    /\ ret.op = "end_call" /\ ~ret.raised /\ ret.before = "error"
    /\ ret.index = 0 /\ Len(calls) = 2
    /\ calls[1].status = "success" /\ calls[1].error = None
    /\ calls[1].output = ret.output /\ ret.output # None
    /\ calls[1].duration_ms = 1

(***************************************************************************)
(* Append-only trace (SpecRecorder).                                       *)
(***************************************************************************)
\* Whether the entry at position p is still the call it was: same tool,
\* same inputs, same start time.
SameCall(p) ==
    /\ calls'[p].tool_name = calls[p].tool_name
    /\ calls'[p].inputs = calls[p].inputs
    /\ calls'[p].timestamp = calls[p].timestamp

\* C27: under every operation of the recorder (start_call, end_call,
\* get_calls, reset) the number of entries never decreases and no entry is
\* removed or reordered, so a handle returned earlier always denotes the
\* same call.
C27_AppendOnly ==
    [][/\ Len(calls') >= Len(calls)
       /\ \A p \in DOMAIN calls : SameCall(p)]_vars

\* What does hold: start_call, end_call and get_calls keep every entry in
\* its place; only reset removes entries.
C27_AppendOnlyButReset ==
    [][ret'.op # "reset" =>
        /\ Len(calls') >= Len(calls)
        /\ \A p \in DOMAIN calls : SameCall(p)]_vars

\* A handle returned before a reset denotes another call after it.
C27_HandleReused ==
    /\ Len(started) = 2 /\ started[1].handle = 0 /\ started[2].handle = 0
    /\ started[1].inputs # started[2].inputs
    /\ Len(calls) = 1 /\ calls[1].inputs = started[2].inputs

(***************************************************************************)
(* Overlapping runs (SpecOverlap).                                         *)
(***************************************************************************)
\* The trace of run r holds the calls run r started, in order, and no other.
OwnTrace(r) ==
    LET run == runs[r] IN
    /\ Len(run.calls) = (IF run.pc \in {SampleTools[run.step].tool} THEN run.step - 1
                         ELSE run.step)
    /\ \A i \in DOMAIN run.calls :
        /\ run.calls[i].tool_name = SampleTools[i].tool
        /\ run.calls[i].inputs = SampleKwargs(run.req, SampleTools[i].tool)

\* The lists run r has obtained are those its inputs produce when the run
\* executes alone.
AloneLists(r) ==
    LET run == runs[r]
        q == run.req IN
    /\ "flights" \in DOMAIN run.results =>
            run.results["flights"]
                = search_flights(hashseed, q.from_city, q.to_city, q.start_date,
                                 q.travelers)
    /\ "hotels" \in DOMAIN run.results =>
            run.results["hotels"]
                = search_hotels(hashseed, q.to_city, q.start_date, q.end_date,
                                q.travelers)

\* C28: when two orchestration runs execute with interleaved steps, each
\* run's trace contains only its own calls, and the flight and hotel lists
\* each run obtains equal the lists the same inputs produce when the run
\* executes alone.
C28_OverlapIsolated == \A r \in Runs : OwnTrace(r) /\ AloneLists(r)

\* What does hold: the traces are isolated, each run has its own recorder.
C28_TracesIsolated == \A r \in Runs : OwnTrace(r)

\* Both runs have returned with the lists of a run alone: their generator
\* steps did not fall between one another's.
C28_UndisturbedCase ==
    /\ \A r \in Runs : runs[r].pc = "return" /\ AloneLists(r)
    /\ runs[1].req # runs[2].req


(***************************************************************************)
(* A run of either orchestrator whose steps are all taken (SpecAgentsFair):*)
(* the orchestrators are straight-line code, so the one step that is       *)
(* enabled is taken as soon as the call it waits for returns or fails.     *)
(***************************************************************************)
SpecAgentsFair == SpecAgents /\ WF_vars(NextAgents)

\* The run has returned its response, the last trace entry finalized.
RunReturned ==
    /\ pc = "return"
    /\ calls # <<>>
    /\ calls[Len(calls)].status # "pending"
    /\ "trace" \in DOMAIN results

\* No adapter has been started twice by the run.
AtMostOnce ==
    /\ \A i, j \in DOMAIN calls : calls[i].tool_name = calls[j].tool_name => i = j
    /\ \A i, j \in DOMAIN started : started[i].tool_name = started[j].tool_name => i = j

\* C29: every run of run_trip_agent and of run_market_agent, its external
\* calls returning or failing, eventually returns its response with the last
\* trace entry finalized, and starts each adapter at most once on the way.
C29_Terminates == <>RunReturned /\ []AtMostOnce

\* A market run that has returned after five steps, one of which failed and
\* was not tried again.
C29_Witness ==
    /\ RunReturned
    /\ req.agent = "market"
    /\ Len(calls) = 5
    /\ \E i \in DOMAIN calls : calls[i].status = "error"


\* The attractions step of a trip run has just returned what get_attractions
\* gave it.
AttractionsReturned ==
    /\ req.agent = "trip"
    /\ pc = "llm_day_itinerary"
    /\ ret.op = "end_call" /\ ~ret.raised /\ ret.error = None

\* The three attractions the lines of ListText parse into: the first with
\* its own rating, the second without a rating field and the third with one
\* that is not a number, both at 4.5; the line without separators and the
\* line without a number are skipped.
ParsedFromListText ==
    <<Attraction("Old Harbor", "Landmark", "Historic port.", 46),
      Attraction("Sea Museum", "Museum", "Maritime history.", 45),
      Attraction("Fish Market", "Market", "Morning catch.", 45)>>

\* C30: get_attractions returns the curated list of a curated city without
\* calling the gateway; for any other city it calls the gateway once and
\* returns the parsed list if a line parsed, and the five generic entries
\* naming the city otherwise; the list is never empty.
C30_ThreeTiers ==
    AttractionsReturned =>
        LET out == results["attractions"]
            key == LowerStrip(req.to_city) IN
        /\ out.t = "list"
        /\ Len(out.items) > 0
        /\ ret.output = out
        /\ IF key \in CURATED_KEYS
           THEN /\ out.items = CURATED_ATTRACTIONS(key)
                /\ llm = NoLLM
           ELSE /\ llm.op = "ask_gemini"
                /\ Len(llm.attempts) <= 2
                /\ IF llm.result = ListText
                   THEN out.items = ParsedFromListText
                   ELSE /\ Len(out.items) = 5
                        /\ out.items = GenericAttractions(req.to_city)
                        /\ \A i \in 1 .. 5 :
                            SubSeq(out.items[i].name, 1, Len(req.to_city)) = req.to_city

\* The parsed tier: a city outside the table, the gateway answering with
\* the list text.
C30_Witness ==
    /\ AttractionsReturned
    /\ LowerStrip(req.to_city) \notin CURATED_KEYS
    /\ llm.op = "ask_gemini"
    /\ llm.result = ListText
    /\ results["attractions"] = List(ParsedFromListText)

====
